---- MODULE Spec2Model ----
(***************************************************************************)
(* Layout engine of excalidraw-copilot (src/src/render/styles.ts):         *)
(* layoutGraph turns a DiagramGraph into a PositionedGraph.                *)
(*                                                                         *)
(* Objects live in a heap (a sequence of records addressed by index), so   *)
(* that sharing between the input graph and the intermediate node lists is *)
(* visible.  Lengths are kept in units of 1/Scale pixel, so that the       *)
(* divisions of spreadOffset are exact.  A text is modelled by its length. *)
(* An optional field is a sequence: <<>> is undefined, <<v>> is v.         *)
(***************************************************************************)
EXTENDS Integers, Sequences, FiniteSets, TLC

VARIABLES
  CONFIG,     \* the module-level layout configuration object
  heap,       \* node objects, addressed by their index
  graph,      \* the DiagramGraph handed to layoutGraph; graph.nodes are heap references
  result,     \* the PositionedGraph of the last call, <<>> before the first return
  pc,         \* "called": layoutGraph is about to run; "returned": it has returned;
              \* "raised": it has raised a TypeError
  snapshot,   \* history: the value of the input graph at the moment of the call
  history,    \* history: <<input value, output value>> of every completed call
  pipeline,   \* the feedback loop of the session: "dsl", "mermaid", or "none"
  loopPc,     \* where that loop is: "ask", "apply", "offer", "done"; "idle" without one
  iteration,  \* the local iteration of the running runFeedbackLoop invocation
  invocation, \* history: the number of invocations of the loop in this session
  sent,       \* history: the number of feedbacks sent to the model in this session
  arrow,      \* the connection and direction given to createConnectionElement, or <<>>
  arrowPoints, \* the points of the arrow element it returned, <<>> before
  traversal,  \* the two while loops of the layout run step by step: their position
              \* and their locals, with the ids expanded so far as history
  validation, \* validateGraph: the parsed graph it is given, then the graph it leaves
              \* or the error it throws
  generation, \* generateGraphFromThinking: its attempt, its conversation and its outcome
  execution,  \* the ExecutionLoop object and the execute() calls on it
  webview     \* ToolExecutor.execute, the panel's pending result and the WebView

layoutVars == <<CONFIG, heap, graph, result, pc, snapshot, history>>
loopVars == <<pipeline, loopPc, iteration, invocation, sent>>
renderVars == <<arrow, arrowPoints>>
traversalVars == <<traversal>>
vars == <<CONFIG, heap, graph, result, pc, snapshot, history,
          pipeline, loopPc, iteration, invocation, sent, arrow, arrowPoints, traversal,
          validation, generation, execution, webview>>

\* ---------------------------------------------------------------- bounds
MaxNodes == 4
MaxConns == 3
MaxChain == 8
MaxCalls == 3

\* ---------------------------------------------------------------- helpers
Max(a, b) == IF a >= b THEN a ELSE b
Min(a, b) == IF a <= b THEN a ELSE b
Abs(a) == IF a >= 0 THEN a ELSE -a

RECURSIVE Gcd(_, _)
Gcd(a, b) == IF b = 0 THEN a ELSE Gcd(b, a % b)

RECURSIVE LcmTo(_)
LcmTo(n) == IF n <= 1 THEN 1 ELSE LET l == LcmTo(n - 1) IN (l * n) \div Gcd(l, n)

\* Units per pixel: every divisor count - 1 of spreadOffset divides it.
Scale == LcmTo(MaxConns)

RECURSIVE SetMax(_)
SetMax(S) == LET x == CHOOSE y \in S : TRUE
             IN IF S = {x} THEN x ELSE Max(x, SetMax(S \ {x}))

RECURSIVE SetMin(_)
SetMin(S) == LET x == CHOOSE y \in S : TRUE
             IN IF S = {x} THEN x ELSE Min(x, SetMin(S \ {x}))

Range(s) == {s[i] : i \in 1..Len(s)}

\* Array.prototype.indexOf, 0-based, -1 when absent
RECURSIVE IndexFrom(_, _, _)
IndexFrom(s, v, i) == IF i > Len(s) THEN -1
                      ELSE IF s[i] = v THEN i - 1 ELSE IndexFrom(s, v, i + 1)
IndexOf(s, v) == IndexFrom(s, v, 1)

\* a ?? b on an optional field
Coalesce(opt, dflt) == IF opt = <<>> THEN dflt ELSE opt[1]

IdNames == <<"a", "b", "c", "d", "e", "f", "g", "h", "i", "j">>

\* ---------------------------------------------------------------- configuration
ConfigInit ==
  [ cellWidth |-> 360, cellHeight |-> 220, margin |-> 80,
    nodeSizes |-> [ high   |-> [width |-> 260, height |-> 160],
                    medium |-> [width |-> 240, height |-> 140],
                    low    |-> [width |-> 220, height |-> 120] ],
    titleY |-> 40, titleFontSize |-> 28,
    noteWidth |-> 340, noteHeight |-> 120, noteOffset |-> 50,
    groupPadding |-> 35 ]

\* ---------------------------------------------------------------- assignRanks
\* The ids a Map<string, string[]> built from the connections holds for key id
OutgoingOf(connections, id) ==
  LET sel == SelectSeq(connections, LAMBDA c : c.from = id)
  IN [i \in 1..Len(sel) |-> sel[i].to]

IncomingOf(connections, id) ==
  LET sel == SelectSeq(connections, LAMBDA c : c.to = id)
  IN [i \in 1..Len(sel) |-> sel[i].from]

\* nodeRanks is a Map in insertion order: a sequence of [id, rank]
RanksHas(nodeRanks, id) == \E i \in 1..Len(nodeRanks) : nodeRanks[i].id = id
RanksGet(nodeRanks, id) ==
  nodeRanks[CHOOSE i \in 1..Len(nodeRanks) : nodeRanks[i].id = id].rank
RanksSet(nodeRanks, id, rank) ==
  IF RanksHas(nodeRanks, id)
  THEN [i \in 1..Len(nodeRanks) |->
          IF nodeRanks[i].id = id THEN [id |-> id, rank |-> rank] ELSE nodeRanks[i]]
  ELSE Append(nodeRanks, [id |-> id, rank |-> rank])

\* The roots, or the first node when there is none
InitialQueue(nodes, connections) ==
  LET roots == SelectSeq(nodes, LAMBDA n : IncomingOf(connections, n.id) = <<>>)
  IN IF Len(roots) > 0 THEN [i \in 1..Len(roots) |-> [id |-> roots[i].id, rank |-> 0]]
     ELSE IF Len(nodes) > 0 THEN << [id |-> nodes[1].id, rank |-> 0] >>
     ELSE <<>>

\* while (queue.length > 0) { ... }
RECURSIVE Bfs(_, _, _)
Bfs(queue, nodeRanks, connections) ==
  IF queue = <<>> THEN nodeRanks
  ELSE LET id == Head(queue).id
           rank == Head(queue).rank
           children == OutgoingOf(connections, id)
       IN IF RanksHas(nodeRanks, id)
          THEN Bfs(Tail(queue),
                   RanksSet(nodeRanks, id, Max(RanksGet(nodeRanks, id), rank)),
                   connections)
          ELSE Bfs(Tail(queue) \o
                     [i \in 1..Len(children) |-> [id |-> children[i], rank |-> rank + 1]],
                   RanksSet(nodeRanks, id, rank),
                   connections)

\* Handle disconnected nodes: each gets maxRank + 1 in node order
RECURSIVE Disconnected(_, _, _, _)
Disconnected(nodes, i, nodeRanks, maxRank) ==
  IF i > Len(nodes) THEN nodeRanks
  ELSE IF RanksHas(nodeRanks, nodes[i].id)
       THEN Disconnected(nodes, i + 1, nodeRanks, maxRank)
       ELSE Disconnected(nodes, i + 1,
                         RanksSet(nodeRanks, nodes[i].id, maxRank + 1), maxRank + 1)

\* NodeRanks with the disconnected nodes all put on the one rank behind the largest
NodeRanksSharedRank(nodes, connections) ==
  LET reached == Bfs(InitialQueue(nodes, connections), <<>>, connections)
      maxRank == SetMax({reached[i].rank : i \in 1..Len(reached)} \cup {0})
      unreached == SelectSeq(nodes, LAMBDA n : ~RanksHas(reached, n.id))
  IN reached \o [k \in 1..Len(unreached) |-> [id |-> unreached[k].id, rank |-> maxRank + 1]]

NodeRanks(nodes, connections) ==
  LET reached == Bfs(InitialQueue(nodes, connections), <<>>, connections)
      maxRank == SetMax({reached[i].rank : i \in 1..Len(reached)} \cup {0})
  IN Disconnected(nodes, 1, reached, maxRank)

\* rankGroups.get(rank): the ids of that rank in insertion order of nodeRanks
RankGroup(nodeRanks, rank) ==
  LET sel == SelectSeq(nodeRanks, LAMBDA e : e.rank = rank)
  IN [i \in 1..Len(sel) |-> sel[i].id]

\* Math.sin and Math.cos of (p / m) * 2 * Math.PI in millionths, as IEEE doubles give
\* them: where the exact value is +-1/2 the double lies on one side of it, which
\* decides Math.round; the entry keeps that side.  SinCos[m][p + 1] = <<sin, cos>>.
SinCos ==
  << << <<0, 1000000>> >>,
     << <<0, 1000000>>, <<0, -1000000>> >>,
     << <<0, 1000000>>, <<866025, -499999>>, <<-866025, -500001>> >>,
     << <<0, 1000000>>, <<1000000, 0>>, <<0, -1000000>>, <<-1000000, 0>> >>,
     << <<0, 1000000>>, <<951057, 309017>>, <<587785, -809017>>,
        <<-587785, -809017>>, <<-951057, 309017>> >>,
     << <<0, 1000000>>, <<866025, 500001>>, <<866025, -499999>>, <<0, -1000000>>,
        <<-866025, -500001>>, <<-866025, 500001>> >> >>

\* Math.round of a value given in millionths: the nearest integer, halves upwards.
\* TLC's \div rounds towards minus infinity, like Math.floor.
RoundMicro(v) == (v + 500000) \div 1000000

RadialRow(posInRank, groupLen, radius) ==
  RoundMicro(SinCos[Max(groupLen, 1)][posInRank + 1][1] * radius)
RadialColumn(posInRank, groupLen, radius) ==
  RoundMicro(SinCos[Max(groupLen, 1)][posInRank + 1][2] * radius)

\* The object nodes.map(...) yields for one node: the node itself when it has both
\* hints, else a copy with row and column filled in.
RankedNode(node, nodeRanks, direction) ==
  LET rank == IF RanksHas(nodeRanks, node.id) THEN RanksGet(nodeRanks, node.id) ELSE 0
      rankGroup == RankGroup(nodeRanks, rank)
      posInRank == IndexOf(rankGroup, node.id)
  IN IF direction = "TB"
     THEN [node EXCEPT !.row = << Coalesce(node.row, rank) >>,
                       !.column = << Coalesce(node.column, posInRank) >>]
     ELSE IF direction = "LR"
     THEN [node EXCEPT !.row = << Coalesce(node.row, posInRank) >>,
                       !.column = << Coalesce(node.column, rank) >>]
     ELSE [node EXCEPT
             !.row = << Coalesce(node.row, RadialRow(posInRank, Len(rankGroup), rank)) >>,
             !.column = << Coalesce(node.column,
                                    RadialColumn(posInRank, Len(rankGroup), rank)) >>]

HasBothHints(node) == node.row # <<>> /\ node.column # <<>>

\* The number of fresh objects allocated for the first i nodes
RECURSIVE FreshUpTo(_, _, _)
FreshUpTo(h, refs, i) ==
  IF i = 0 THEN 0
  ELSE FreshUpTo(h, refs, i - 1) + (IF HasBothHints(h[refs[i]]) THEN 0 ELSE 1)

\* assignRanks on node references: a hinted node is returned as the same object,
\* any other as a new object.  Yields the new heap and the returned array.
assignRanks(h, refs, connections, direction) ==
  LET nodes == [i \in 1..Len(refs) |-> h[refs[i]]]
      nodeRanks == NodeRanks(nodes, connections)
      fresh == SelectSeq([i \in 1..Len(refs) |-> i],
                         LAMBDA i : ~HasBothHints(nodes[i]))
  IN [ heap |-> h \o [k \in 1..Len(fresh) |->
                        RankedNode(nodes[fresh[k]], nodeRanks, direction)],
       nodes |-> [i \in 1..Len(refs) |->
                    IF HasBothHints(nodes[i]) THEN refs[i]
                    ELSE Len(h) + FreshUpTo(h, refs, i)] ]

\* ---------------------------------------------------------------- applySnakeLayout
\* The first loop: TRUE when some connection finds its source or its target already
\* taken, in which case the function returns its argument
RECURSIVE NotSimpleChain(_, _, _, _)
NotSimpleChain(connections, i, froms, tos) ==
  IF i > Len(connections) THEN FALSE
  ELSE IF connections[i].from \in froms \/ connections[i].to \in tos THEN TRUE
  ELSE NotSimpleChain(connections, i + 1,
                      froms \cup {connections[i].from}, tos \cup {connections[i].to})

\* while (current) { chain.push(current); current = outgoing.get(current); }
RECURSIVE WalkChain(_, _, _)
WalkChain(connections, current, chain) ==
  LET next == OutgoingOf(connections, current)
  IN IF next = <<>> THEN Append(chain, current)
     ELSE WalkChain(connections, next[1], Append(chain, current))

\* SnakeCell without the reversal of odd rows
SnakeCellUnreversed(index, maxCols) ==
  [row |-> index \div maxCols, column |-> index % maxCols]

SnakeCell(index, maxCols) ==
  LET rowIndex == index \div maxCols
      colIndex == index % maxCols
      isReversedRow == rowIndex % 2 = 1
  IN [row |-> rowIndex,
      column |-> IF isReversedRow THEN maxCols - 1 - colIndex ELSE colIndex]

SnakeMaxCols(chainLength) == IF chainLength <= 6 THEN 3 ELSE 4

\* chain.length < nodes.length * 0.8, in tenths
ChainTooShort(chainLength, nodeCount) == chainLength * 10 < nodeCount * 8

\* applySnakeLayout writing row and column into the nodes it was given
applySnakeLayoutInPlace(h, refs, connections) ==
  LET nodes == [i \in 1..Len(refs) |-> h[refs[i]]]
      starts == SelectSeq(nodes, LAMBDA n : IncomingOf(connections, n.id) = <<>>)
      same == [heap |-> h, nodes |-> refs]
  IN IF NotSimpleChain(connections, 1, {}, {}) THEN same
     ELSE IF starts = <<>> THEN same
     ELSE LET chain == WalkChain(connections, starts[1].id, <<>>)
              maxCols == SnakeMaxCols(Len(chain))
              Written(n) == LET index == IndexOf(chain, n.id)
                                cell == SnakeCell(index, maxCols)
                            IN IF index < 0 THEN n
                               ELSE [n EXCEPT !.row = << cell.row >>,
                                              !.column = << cell.column >>]
          IN IF ChainTooShort(Len(chain), Len(nodes)) THEN same
             ELSE [ heap |-> [r \in 1..Len(h) |->
                                IF r \in Range(refs) THEN Written(h[r]) ELSE h[r]],
                    nodes |-> refs ]

\* applySnakeLayout on node references: the argument itself on every early return,
\* else copies of all nodes, those on the chain with the snake row and column.
applySnakeLayout(h, refs, connections) ==
  LET nodes == [i \in 1..Len(refs) |-> h[refs[i]]]
      starts == SelectSeq(nodes, LAMBDA n : IncomingOf(connections, n.id) = <<>>)
      same == [heap |-> h, nodes |-> refs]
  IN IF NotSimpleChain(connections, 1, {}, {}) THEN same
     ELSE IF starts = <<>> THEN same
     ELSE LET chain == WalkChain(connections, starts[1].id, <<>>)
              maxCols == SnakeMaxCols(Len(chain))
              Copy(n) == LET index == IndexOf(chain, n.id)
                             cell == SnakeCell(index, maxCols)
                         IN IF index < 0 THEN n
                            ELSE [n EXCEPT !.row = << cell.row >>,
                                           !.column = << cell.column >>]
          IN IF ChainTooShort(Len(chain), Len(nodes)) THEN same
             ELSE [ heap |-> h \o [i \in 1..Len(refs) |-> Copy(nodes[i])],
                    nodes |-> [i \in 1..Len(refs) |-> Len(h) + i] ]

\* ---------------------------------------------------------------- connection points
\* A length of v pixels, in units
Px(v) == v * Scale

\* spreadOffset measured from the centre instead of around it
spreadOffsetFromCentre(index, count, totalSpread) ==
  IF count <= 1 THEN 0 ELSE (totalSpread * index) \div (count - 1)

spreadOffset(index, count, totalSpread) ==
  IF count <= 1 THEN 0
  ELSE (totalSpread * index) \div (count - 1) - totalSpread \div 2

\* from.height * 0.5 and from.width * 0.6
HalfOf(length) == length \div 2
SixTenthsOf(length) == (length * 6) \div 10

\* calculateConnectionPoints choosing the axis by magnitude only, whatever the direction
calculateConnectionPointsByMagnitude(from, to, direction, fanOutIndex, fanOutCount, fanInIndex, fanInCount) ==
  LET dx == to.x - from.x
      dy == to.y - from.y
      useHorizontal == Abs(dx) > Abs(dy)
  IN IF useHorizontal
     THEN [ fromX |-> IF dx > 0 THEN from.x + from.width \div 2
                                ELSE from.x - from.width \div 2,
            toX   |-> IF dx > 0 THEN to.x - to.width \div 2 ELSE to.x + to.width \div 2,
            fromY |-> from.y + spreadOffset(fanOutIndex, fanOutCount, HalfOf(from.height)),
            toY   |-> to.y + spreadOffset(fanInIndex, fanInCount, HalfOf(to.height)) ]
     ELSE IF dy = 0
     THEN [ fromX |-> IF dx > 0 THEN from.x + from.width \div 2
                                ELSE from.x - from.width \div 2,
            fromY |-> from.y,
            toX   |-> IF dx > 0 THEN to.x - to.width \div 2 ELSE to.x + to.width \div 2,
            toY   |-> to.y ]
     ELSE [ fromY |-> IF dy > 0 THEN from.y + from.height \div 2
                                ELSE from.y - from.height \div 2,
            toY   |-> IF dy > 0 THEN to.y - to.height \div 2 ELSE to.y + to.height \div 2,
            fromX |-> from.x + spreadOffset(fanOutIndex, fanOutCount,
                                            SixTenthsOf(from.width)),
            toX   |-> to.x + spreadOffset(fanInIndex, fanInCount, SixTenthsOf(to.width)) ]

calculateConnectionPoints(from, to, direction, fanOutIndex, fanOutCount, fanInIndex, fanInCount) ==
  LET dx == to.x - from.x
      dy == to.y - from.y
      preferVertical == direction = "TB" /\ Abs(dy) > 0
      preferHorizontal == direction = "LR" /\ Abs(dx) > 0
      useHorizontal == preferHorizontal \/ (~preferVertical /\ Abs(dx) > Abs(dy))
  IN IF useHorizontal
     THEN [ fromX |-> IF dx > 0 THEN from.x + from.width \div 2
                                ELSE from.x - from.width \div 2,
            toX   |-> IF dx > 0 THEN to.x - to.width \div 2 ELSE to.x + to.width \div 2,
            fromY |-> from.y + spreadOffset(fanOutIndex, fanOutCount, HalfOf(from.height)),
            toY   |-> to.y + spreadOffset(fanInIndex, fanInCount, HalfOf(to.height)) ]
     ELSE IF dy = 0
     THEN \* same row: horizontal, no spreading
          [ fromX |-> IF dx > 0 THEN from.x + from.width \div 2
                                ELSE from.x - from.width \div 2,
            fromY |-> from.y,
            toX   |-> IF dx > 0 THEN to.x - to.width \div 2 ELSE to.x + to.width \div 2,
            toY   |-> to.y ]
     ELSE [ fromY |-> IF dy > 0 THEN from.y + from.height \div 2
                                ELSE from.y - from.height \div 2,
            toY   |-> IF dy > 0 THEN to.y - to.height \div 2 ELSE to.y + to.height \div 2,
            fromX |-> from.x + spreadOffset(fanOutIndex, fanOutCount,
                                            SixTenthsOf(from.width)),
            toX   |-> to.x + spreadOffset(fanInIndex, fanInCount, SixTenthsOf(to.width)) ]

\* ---------------------------------------------------------------- layoutGraph
\* Step 3 with the box as wide as its label, without the limit of 340
PositionedNodeUncapped(node) ==
  LET baseSize == CONFIG.nodeSizes[IF node.importance = "undefined" THEN "medium"
                                   ELSE node.importance]
      row == Coalesce(node.row, 0)
      col == Coalesce(node.column, 0)
      labelWidth == node.labelLen * 10 + 30
  IN [ id |-> node.id, importance |-> node.importance, labelLen |-> node.labelLen,
       row |-> node.row, column |-> node.column,
       x |-> Px(CONFIG.margin + col * CONFIG.cellWidth + CONFIG.cellWidth \div 2),
       y |-> Px(CONFIG.margin + 50 + row * CONFIG.cellHeight + CONFIG.cellHeight \div 2),
       width |-> Px(Max(baseSize.width, labelWidth)),
       height |-> Px(baseSize.height) ]

\* Step 3: the positioned node of one ranked node
PositionedNode(node) ==
  LET baseSize == CONFIG.nodeSizes[IF node.importance = "undefined" THEN "medium"
                                   ELSE node.importance]
      row == Coalesce(node.row, 0)
      col == Coalesce(node.column, 0)
      labelWidth == node.labelLen * 10 + 30
  IN [ id |-> node.id, importance |-> node.importance, labelLen |-> node.labelLen,
       row |-> node.row, column |-> node.column,
       x |-> Px(CONFIG.margin + col * CONFIG.cellWidth + CONFIG.cellWidth \div 2),
       y |-> Px(CONFIG.margin + 50 + row * CONFIG.cellHeight + CONFIG.cellHeight \div 2),
       width |-> Px(Max(baseSize.width, Min(labelWidth, 340))),
       height |-> Px(baseSize.height) ]

\* nodeMap.get(id): <<>> when absent, else the last positioned node of that id
NodeMapGet(positionedNodes, id) ==
  LET sel == SelectSeq(positionedNodes, LAMBDA n : n.id = id)
  IN IF sel = <<>> THEN <<>> ELSE << sel[Len(sel)] >>

\* nodeMap.get(id)?.x ?? 0
XOrZero(positionedNodes, id) ==
  LET n == NodeMapGet(positionedNodes, id) IN IF n = <<>> THEN 0 ELSE n[1].x

\* targets.sort((a, b) => (nodeMap.get(a)?.x ?? 0) - (nodeMap.get(b)?.x ?? 0)):
\* stable, ascending
RECURSIVE InsertByX(_, _, _)
InsertByX(sorted, id, positionedNodes) ==
  IF sorted = <<>> THEN << id >>
  ELSE IF XOrZero(positionedNodes, sorted[Len(sorted)]) <= XOrZero(positionedNodes, id)
  THEN Append(sorted, id)
  ELSE Append(InsertByX(SubSeq(sorted, 1, Len(sorted) - 1), id, positionedNodes),
              sorted[Len(sorted)])

RECURSIVE SortByX(_, _)
SortByX(ids, positionedNodes) ==
  IF ids = <<>> THEN <<>>
  ELSE InsertByX(SortByX(SubSeq(ids, 1, Len(ids) - 1), positionedNodes),
                 ids[Len(ids)], positionedNodes)

\* fanOutMap.get(id) and fanInMap.get(id) after the sort
FanOutTargets(connections, positionedNodes, id) ==
  SortByX(OutgoingOf(connections, id), positionedNodes)
FanInSources(connections, positionedNodes, id) ==
  SortByX(IncomingOf(connections, id), positionedNodes)

\* Step 4: one positioned connection
PositionedConnection(conn, connections, positionedNodes, direction) ==
  LET fromNode == NodeMapGet(positionedNodes, conn.from)
      toNode == NodeMapGet(positionedNodes, conn.to)
      fanOutTargets == FanOutTargets(connections, positionedNodes, conn.from)
      fanInSources == FanInSources(connections, positionedNodes, conn.to)
      points == calculateConnectionPoints(
                  fromNode[1], toNode[1], direction,
                  IndexOf(fanOutTargets, conn.to), Len(fanOutTargets),
                  IndexOf(fanInSources, conn.from), Len(fanInSources))
  IN IF fromNode = <<>> \/ toNode = <<>>
     THEN [from |-> conn.from, to |-> conn.to,
           fromX |-> 0, fromY |-> 0, toX |-> 0, toY |-> 0]
     ELSE [from |-> conn.from, to |-> conn.to,
           fromX |-> points.fromX, fromY |-> points.fromY,
           toX |-> points.toX, toY |-> points.toY]

\* PositionedGroup without the room for the label above the members
PositionedGroupNoLabel(group, positionedNodes) ==
  LET found == SelectSeq(group.nodeIds,
                         LAMBDA id : NodeMapGet(positionedNodes, id) # <<>>)
      groupNodes == [i \in 1..Len(found) |-> NodeMapGet(positionedNodes, found[i])[1]]
      minX == SetMin({n.x - n.width \div 2 : n \in Range(groupNodes)})
                - Px(CONFIG.groupPadding)
      minY == SetMin({n.y - n.height \div 2 : n \in Range(groupNodes)})
                - Px(CONFIG.groupPadding)
      maxX == SetMax({n.x + n.width \div 2 : n \in Range(groupNodes)})
                + Px(CONFIG.groupPadding)
      maxY == SetMax({n.y + n.height \div 2 : n \in Range(groupNodes)})
                + Px(CONFIG.groupPadding)
  IN IF Len(groupNodes) = 0
     THEN [id |-> group.id, nodeIds |-> group.nodeIds,
           x |-> 0, y |-> 0, width |-> Px(100), height |-> Px(100)]
     ELSE [id |-> group.id, nodeIds |-> group.nodeIds,
           x |-> minX, y |-> minY, width |-> maxX - minX, height |-> maxY - minY]

\* Step 5: one positioned group
PositionedGroup(group, positionedNodes) ==
  LET found == SelectSeq(group.nodeIds,
                         LAMBDA id : NodeMapGet(positionedNodes, id) # <<>>)
      groupNodes == [i \in 1..Len(found) |-> NodeMapGet(positionedNodes, found[i])[1]]
      minX == SetMin({n.x - n.width \div 2 : n \in Range(groupNodes)})
                - Px(CONFIG.groupPadding)
      minY == SetMin({n.y - n.height \div 2 : n \in Range(groupNodes)})
                - Px(CONFIG.groupPadding) - Px(25)
      maxX == SetMax({n.x + n.width \div 2 : n \in Range(groupNodes)})
                + Px(CONFIG.groupPadding)
      maxY == SetMax({n.y + n.height \div 2 : n \in Range(groupNodes)})
                + Px(CONFIG.groupPadding)
  IN IF Len(groupNodes) = 0
     THEN [id |-> group.id, nodeIds |-> group.nodeIds,
           x |-> 0, y |-> 0, width |-> Px(100), height |-> Px(100)]
     ELSE [id |-> group.id, nodeIds |-> group.nodeIds,
           x |-> minX, y |-> minY, width |-> maxX - minX, height |-> maxY - minY]

\* note && note.text && note.text.trim().length > 0
NoteKept(note) == note.text.len > 0 /\ ~note.text.blank

\* Math.ceil(a / b) for a >= 0, b > 0
CeilDiv(a, b) == (a + b - 1) \div b

\* Step 6: one positioned note; index counts the notes that were kept
PositionedNote(note, index, positionedNodes, maxRow, maxCol) ==
  LET targetNode == IF note.attachedTo = <<>> THEN <<>>
                    ELSE NodeMapGet(positionedNodes, note.attachedTo[1])
      t == targetNode[1]
      position == IF note.position = "undefined" THEN "below" ELSE note.position
      floatX == Px(CONFIG.margin + ((maxCol + 1) * CONFIG.cellWidth) \div 2)
      floatY == Px(CONFIG.margin + 50 + (maxRow + 1) * CONFIG.cellHeight + 120
                   + index * (CONFIG.noteHeight + 20))
      at == IF targetNode = <<>> THEN [x |-> floatX, y |-> floatY]
            ELSE IF position = "left"
            THEN [x |-> t.x - t.width \div 2 - Px(CONFIG.noteWidth) - Px(CONFIG.noteOffset),
                  y |-> t.y]
            ELSE IF position = "right"
            THEN [x |-> t.x + t.width \div 2 + Px(CONFIG.noteOffset), y |-> t.y]
            ELSE IF position = "above"
            THEN [x |-> t.x,
                  y |-> t.y - t.height \div 2 - Px(CONFIG.noteHeight) - Px(CONFIG.noteOffset)]
            ELSE [x |-> t.x,
                  y |-> t.y + t.height \div 2 + Px(CONFIG.noteOffset)
                          + Px(CONFIG.noteHeight) \div 2]
      estimatedLines == Max(2, CeilDiv(note.text.len + 3, 35))
  IN [ text |-> note.text, attachedTo |-> note.attachedTo, position |-> note.position,
       x |-> at.x, y |-> at.y,
       width |-> Px(CONFIG.noteWidth), height |-> Px(estimatedLines * 22 + 30) ]

\* layoutGraph on heap h and graph g: the heap after the call and the PositionedGraph,
\* whose nodes are references to the new positioned node objects.
layoutGraph(h, g) ==
  LET ranked == assignRanks(h, g.nodes, g.connections, g.direction)
      snaked == IF g.direction = "LR"
                THEN applySnakeLayout(ranked.heap, ranked.nodes, g.connections)
                ELSE ranked
      rankedNodes == [i \in 1..Len(snaked.nodes) |-> snaked.heap[snaked.nodes[i]]]
      maxRow == SetMax({Coalesce(n.row, 0) : n \in Range(rankedNodes)})
      maxCol == SetMax({Coalesce(n.column, 0) : n \in Range(rankedNodes)})
      positionedNodes == [i \in 1..Len(rankedNodes) |-> PositionedNode(rankedNodes[i])]
      keptNotes == SelectSeq(g.notes, NoteKept)
  IN [ heap |-> snaked.heap \o positionedNodes,
       result |->
         [ direction |-> g.direction,
           title |-> IF g.title = <<>> THEN <<>>
                     ELSE << [ text |-> g.title[1],
                               x |-> Px(CONFIG.margin
                                        + ((maxCol + 1) * CONFIG.cellWidth) \div 2),
                               y |-> Px(CONFIG.titleY) ] >>,
           nodes |-> [i \in 1..Len(positionedNodes) |-> Len(snaked.heap) + i],
           connections |-> [i \in 1..Len(g.connections) |->
                              PositionedConnection(g.connections[i], g.connections,
                                                   positionedNodes, g.direction)],
           groups |-> [i \in 1..Len(g.groups) |->
                         PositionedGroup(g.groups[i], positionedNodes)],
           notes |-> [i \in 1..Len(keptNotes) |->
                        PositionedNote(keptNotes[i], i - 1, positionedNodes,
                                       maxRow, maxCol)] ] ]

\* ---------------------------------------------------------------- TypeErrors
\* Reading a property of undefined raises a TypeError.  Each operator below is one
\* place where layoutGraph reads a property of a value that may be undefined, under
\* the conditions the code puts in front of the read; ids is the key set of nodeMap.

\* baseSize.width, baseSize being CONFIG.nodeSizes[node.importance || 'medium']
RaisesAtNode(node) ==
  LET key == IF node.importance = "undefined" THEN "medium" ELSE node.importance
  IN key \notin DOMAIN CONFIG.nodeSizes

\* node.row = rowIndex in chain.forEach, after  if (!node) return
RaisesAtSnake(nodes, connections) ==
  LET ids == {nodes[i].id : i \in 1..Len(nodes)}
      starts == SelectSeq(nodes, LAMBDA n : IncomingOf(connections, n.id) = <<>>)
  IN IF NotSimpleChain(connections, 1, {}, {}) THEN FALSE
     ELSE IF starts = <<>> THEN FALSE
     ELSE LET chain == WalkChain(connections, starts[1].id, <<>>)
          IN IF ChainTooShort(Len(chain), Len(nodes)) THEN FALSE
             ELSE \E k \in 1..Len(chain) :
                    IF chain[k] \notin ids THEN FALSE ELSE chain[k] \notin ids

\* to.x - from.x in calculateConnectionPoints without  if (!fromNode || !toNode)
RaisesAtConnectionUnguarded(conn, ids) ==
  conn.from \notin ids \/ conn.to \notin ids

\* to.x - from.x in calculateConnectionPoints, after  if (!fromNode || !toNode)
RaisesAtConnection(conn, ids) ==
  IF conn.from \notin ids \/ conn.to \notin ids THEN FALSE
  ELSE conn.from \notin ids \/ conn.to \notin ids

\* n.x - n.width / 2 over groupNodes, after  .filter(n => n !== undefined)
RaisesAtGroup(group, ids) ==
  LET groupNodes == SelectSeq(group.nodeIds, LAMBDA id : id \in ids)
  IN \E k \in 1..Len(groupNodes) : groupNodes[k] \notin ids

\* targetNode.x, inside  if (note.attachedTo)  and  if (targetNode)
RaisesAtNote(note, ids) ==
  IF note.attachedTo = <<>> THEN FALSE
  ELSE IF note.attachedTo[1] \in ids THEN note.attachedTo[1] \notin ids
  ELSE FALSE

\* layoutGraph on heap h and graph g raises a TypeError
Raises(h, g) ==
  LET nodes == [i \in 1..Len(g.nodes) |-> h[g.nodes[i]]]
      ids == {nodes[i].id : i \in 1..Len(nodes)}
  IN \/ g.direction = "LR" /\ RaisesAtSnake(nodes, g.connections)
     \/ \E i \in 1..Len(nodes) : RaisesAtNode(nodes[i])
     \/ \E i \in 1..Len(g.connections) : RaisesAtConnection(g.connections[i], ids)
     \/ \E i \in 1..Len(g.groups) : RaisesAtGroup(g.groups[i], ids)
     \/ \E i \in 1..Len(g.notes) : NoteKept(g.notes[i]) /\ RaisesAtNote(g.notes[i], ids)

\* ---------------------------------------------------------------- inputs
\* An id that no node carries
Dangling == "zz"

Ids(n) == {IdNames[i] : i \in 1..n}

PlainNode(i) ==
  [id |-> IdNames[i], importance |-> "undefined", labelLen |-> 3,
   row |-> <<>>, column |-> <<>>]

PlainNodes(n) == [i \in 1..n |-> PlainNode(i)]

Graph(direction, nodes, connections, groups, notes, title) ==
  [direction |-> direction, title |-> title, nodes |-> nodes,
   connections |-> connections, groups |-> groups, notes |-> notes]

Conn(u, v) == [from |-> u, to |-> v]

Directions == {"TB", "LR", "radial"}

\* The ids of n nodes followed by the dangling id
IdsAndDangling(n) == [i \in 1..(n + 1) |-> IF i <= n THEN IdNames[i] ELSE Dangling]

\* The connections over these ids, numbered from 0 in the order of source then
\* target; ValidPairs are those between nodes, AllPairs may dangle at one end or both.
PairOf(n, k) == Conn(IdsAndDangling(n)[(k \div (n + 1)) + 1],
                     IdsAndDangling(n)[(k % (n + 1)) + 1])
AllPairs(n) == {k \in 0..((n + 1) * (n + 1) - 1) : PairOf(n, k).from # PairOf(n, k).to}
ValidPairs(n) ==
  {k \in AllPairs(n) : PairOf(n, k).from # Dangling /\ PairOf(n, k).to # Dangling}

\* The strictly ascending sequences of m elements of the set U of numbers
RECURSIVE AscendingSeqs(_, _)
AscendingSeqs(U, m) ==
  IF m = 0 THEN {<<>>}
  ELSE {Append(p[1], p[2]) :
          p \in {q \in AscendingSeqs(U, m - 1) \X U :
                   q[1] = <<>> \/ q[2] > q[1][Len(q[1])]}}

Reverse(s) == [i \in 1..Len(s) |-> s[Len(s) + 1 - i]]

\* The connection list of a sequence of pair numbers
ConnList(n, ks) == [i \in 1..Len(ks) |-> PairOf(n, ks[i])]

SeqsUpTo(S, k) == UNION {[1..m -> S] : m \in 0..k}

\* n plain nodes, every set of m connections, dangling ones included
WiredGraphs(n, m) ==
  {Graph(d, PlainNodes(n), ConnList(n, ks), <<>>, <<>>, <<>>) :
     d \in Directions, ks \in AscendingSeqs(AllPairs(n), m)}

\* The same lists in descending order
ReorderedGraphs(n, m) ==
  {Graph(d, PlainNodes(n), Reverse(ConnList(n, ks)), <<>>, <<>>, <<>>) :
     d \in Directions, ks \in AscendingSeqs(AllPairs(n), m)}

\* Is there a path of connections from an id of frontier back to id target
RECURSIVE Reaches(_, _, _, _)
Reaches(connections, frontier, seen, target) ==
  LET next == {c.to : c \in {d \in Range(connections) : d.from \in frontier}}
  IN IF target \in next THEN TRUE
     ELSE IF next \subseteq seen THEN FALSE
     ELSE Reaches(connections, next \ seen, seen \cup next, target)

IsAcyclic(connections) ==
  \A c \in Range(connections) : ~Reaches(connections, {c.from}, {c.from}, c.from)

\* Acyclic graphs of n plain nodes and m connections, none dangling
AcyclicGraphs(n, m) ==
  {Graph(d, PlainNodes(n), ConnList(n, ks), <<>>, <<>>, <<>>) :
     d \in {"TB", "LR"},
     ks \in {t \in AscendingSeqs(ValidPairs(n), m) : IsAcyclic(ConnList(n, t))}}

\* A few shapes of connection lists over n nodes
Chain(n) == [i \in 1..(n - 1) |-> Conn(IdNames[i], IdNames[i + 1])]
BackChain(n) == [i \in 1..(n - 1) |-> Conn(IdNames[i + 1], IdNames[i])]
FanOut(n) == [i \in 1..(n - 1) |-> Conn(IdNames[1], IdNames[i + 1])]
FanIn(n) == [i \in 1..(n - 1) |-> Conn(IdNames[i], IdNames[n])]
Shapes(n) ==
  { <<>>, Chain(n), BackChain(n), FanOut(n), FanIn(n),
    Append(Chain(n), Conn(IdNames[n], Dangling)),
    << Conn(IdNames[1], IdNames[n]), Conn(IdNames[1], IdNames[n]) >> }

HintChoices ==
  { [row |-> <<>>, column |-> <<>>], [row |-> <<2>>, column |-> <<1>>],
    [row |-> <<0>>, column |-> <<0>>], [row |-> <<1>>, column |-> <<>>] }

\* Every assignment of hints to n nodes
HintedGraphs(n) ==
  {Graph(d, [i \in 1..n |-> [PlainNode(i) EXCEPT !.row = hints[i].row,
                                               !.column = hints[i].column]],
         cs, <<>>, <<>>, <<>>) :
     d \in Directions, cs \in Shapes(n), hints \in [1..n -> HintChoices]}

SizeChoices ==
  { [importance |-> "undefined", labelLen |-> 22], [importance |-> "high", labelLen |-> 3],
    [importance |-> "low", labelLen |-> 40], [importance |-> "medium", labelLen |-> 0] }

\* Every assignment of importance and label length to n nodes
SizedGraphs(n) ==
  {Graph(d, [i \in 1..n |-> [PlainNode(i) EXCEPT !.importance = sizes[i].importance,
                                               !.labelLen = sizes[i].labelLen]],
         cs, <<>>, <<>>, <<>>) :
     d \in Directions, cs \in Shapes(n), sizes \in [1..n -> SizeChoices]}

\* Nodes of mixed sizes
MixedNode(i) ==
  LET size == << [importance |-> "high", labelLen |-> 3],
                 [importance |-> "low", labelLen |-> 40],
                 [importance |-> "undefined", labelLen |-> 22] >>[(i % 3) + 1]
  IN [PlainNode(i) EXCEPT !.importance = size.importance, !.labelLen = size.labelLen]
MixedNodes(n) == [i \in 1..n |-> MixedNode(i)]

MaxMembers == 3

\* One group of every member list, alone or followed by a group without any node
GroupLists(n) ==
  {<< [id |-> "g1", nodeIds |-> ms] >> \o tail :
     ms \in SeqsUpTo(Ids(n) \cup {Dangling}, MaxMembers),
     tail \in {<<>>, << [id |-> "g2", nodeIds |-> << Dangling >>] >>}}

GroupedGraphs(n) ==
  {Graph(d, MixedNodes(n), cs, gs, <<>>, <<>>) :
     d \in Directions, cs \in {<<>>, Chain(n)}, gs \in GroupLists(n)}

MaxNotes == 2

Note(len, blank, attachedTo, position) ==
  [text |-> [len |-> len, blank |-> blank], attachedTo |-> attachedTo,
   position |-> position]

NoteChoices ==
  { Note(4, TRUE, <<>>, "undefined"), Note(10, FALSE, <<>>, "undefined"),
    Note(80, FALSE, <<>>, "undefined"), Note(10, FALSE, << Dangling >>, "left"),
    Note(80, FALSE, << "a" >>, "undefined") }
  \cup {Note(10, FALSE, << "a" >>, p) : p \in {"left", "right", "above", "below"}}

\* Every list of at most MaxNotes notes, with and without a title
NotedGraphs(n) ==
  {Graph(d, MixedNodes(n), Chain(n), <<>>, ns, t) :
     d \in Directions, ns \in SeqsUpTo(NoteChoices, MaxNotes),
     t \in {<<>>, << "title" >>}}

\* The orders in which a chain runs through the node list
ChainOrders(n) ==
  { [i \in 1..n |-> i], [i \in 1..n |-> n + 1 - i], [i \in 1..n |-> (i % n) + 1],
    [i \in 1..n |-> IF 2 * i - 1 <= n THEN 2 * i - 1 ELSE 2 * (i - (n + 1) \div 2)] }

ChainHints(n) ==
  { [i \in 1..n |-> [row |-> <<>>, column |-> <<>>]],
    [i \in 1..n |-> [row |-> << i >>, column |-> << 0 >>]],
    [i \in 1..n |-> IF i = 1 THEN [row |-> << 2 >>, column |-> << 1 >>]
                    ELSE [row |-> <<>>, column |-> <<>>]] }

ChainConns(order) ==
  [i \in 1..(Len(order) - 1) |-> Conn(IdNames[order[i]], IdNames[order[i + 1]])]

ChainLists(n) ==
  {ChainConns(o) : o \in ChainOrders(n)} \cup {Reverse(ChainConns(o)) : o \in ChainOrders(n)}

\* One simple chain through all of n nodes
ChainGraphs(n) ==
  {Graph(d, [i \in 1..n |-> [PlainNode(i) EXCEPT !.row = hints[i].row,
                                               !.column = hints[i].column]],
         cs, <<>>, <<>>, <<>>) :
     d \in Directions, hints \in ChainHints(n), cs \in ChainLists(n)}

\* ---------------------------------------------------------------- state machine
\* The value of a graph whose nodes are references
\* No feedback loop is running
LoopIdle ==
  /\ pipeline = "none"
  /\ loopPc = "idle"
  /\ iteration = 0
  /\ invocation = 0
  /\ sent = 0

\* No arrow is being created
RenderIdle ==
  /\ arrow = <<>>
  /\ arrowPoints = <<>>

\* No call of layoutGraph
LayoutIdle ==
  /\ CONFIG = ConfigInit
  /\ heap = <<>>
  /\ graph = <<>>
  /\ result = <<>>
  /\ pc = "idle"
  /\ snapshot = <<>>
  /\ history = <<>>

\* No loop is run step by step
TraversalIdle == traversal = [pc |-> "idle"]

\* No graph is being validated, none generated, no agent loop and no tool call runs
ValidationIdle == validation = [pc |-> "idle"]
GenerationIdle == generation = [pc |-> "idle"]
ExecutionIdle == execution = [pc |-> "idle"]
WebviewIdle == webview = [pc |-> "idle"]
ServicesIdle == ValidationIdle /\ GenerationIdle /\ ExecutionIdle /\ WebviewIdle

\* What a step of layoutGraph or its caller leaves alone
LayoutFrame ==
  UNCHANGED <<loopVars, renderVars, traversalVars, validation, generation, execution, webview>>

\* What a step of the feedback loop leaves alone
LoopFrame ==
  UNCHANGED <<layoutVars, renderVars, traversalVars, validation, generation, execution, webview>>

\* What the creation of an arrow leaves alone
RenderFrame ==
  UNCHANGED <<layoutVars, loopVars, traversalVars, validation, generation, execution, webview>>

\* What a step of a traversal leaves alone
TraversalFrame ==
  UNCHANGED <<layoutVars, loopVars, renderVars, validation, generation, execution, webview>>

\* What validateGraph, generateGraphFromThinking, the ExecutionLoop and a tool call
\* leave alone
ValidationFrame ==
  UNCHANGED <<layoutVars, loopVars, renderVars, traversalVars, generation, execution, webview>>
GenerationFrame ==
  UNCHANGED <<layoutVars, loopVars, renderVars, traversalVars, validation, execution, webview>>
ExecutionFrame ==
  UNCHANGED <<layoutVars, loopVars, renderVars, traversalVars, validation, generation, webview>>
WebviewFrame ==
  UNCHANGED <<layoutVars, loopVars, renderVars, traversalVars, validation, generation, execution>>

GraphValue(g, h) == [g EXCEPT !.nodes = [i \in 1..Len(g.nodes) |-> h[g.nodes[i]]]]

\* The graph object layoutGraph is called with, its nodes allocated after heap h
GraphObject(g, h) == [g EXCEPT !.nodes = [i \in 1..Len(g.nodes) |-> Len(h) + i]]

\* layoutGraph is called with a new graph object of value g on an empty heap
Called(g) ==
  /\ heap = g.nodes
  /\ graph = GraphObject(g, <<>>)
  /\ snapshot = g

Init ==
  /\ LoopIdle
  /\ RenderIdle
  /\ TraversalIdle
  /\ ServicesIdle
  /\ CONFIG = ConfigInit
  /\ result = <<>>
  /\ pc = "called"
  /\ history = <<>>
  /\ \/ \E n \in 1..MaxNodes, m \in 0..MaxConns : \E g \in WiredGraphs(n, m) : Called(g)
     \/ \E n \in 1..(MaxNodes - 1), m \in 0..MaxConns :
          \E g \in ReorderedGraphs(n, m) : Called(g)
     \/ \E g \in AcyclicGraphs(MaxNodes, MaxConns + 1) : Called(g)
     \/ \E n \in 1..MaxNodes : \E g \in HintedGraphs(n) : Called(g)
     \/ \E n \in 1..MaxNodes : \E g \in SizedGraphs(n) : Called(g)
     \/ \E n \in 1..MaxNodes : \E g \in GroupedGraphs(n) : Called(g)
     \/ \E n \in 1..MaxNodes : \E g \in NotedGraphs(n) : Called(g)
     \/ \E n \in 1..MaxChain : \E g \in ChainGraphs(n) : Called(g)

\* layoutGraph making room for a title by moving the margin of CONFIG
LayoutGraphMovingMargin ==
  /\ pc = "called"
  /\ ~Raises(heap, graph)
  /\ \E out \in {layoutGraph(heap, graph)} :
        /\ heap' = out.heap
        /\ result' = out.result
        /\ history' = Append(history, [input |-> snapshot,
                                       output |-> GraphValue(out.result, out.heap)])
        /\ CONFIG' = IF out.result.title = <<>> THEN CONFIG
                     ELSE [CONFIG EXCEPT !.margin = @ + CONFIG.titleFontSize]
  /\ pc' = "returned"
  /\ UNCHANGED <<graph, snapshot>>
  /\ LayoutFrame

\* One call of layoutGraph that returns
LayoutGraph ==
  /\ pc = "called"
  /\ ~Raises(heap, graph)
  /\ \E out \in {layoutGraph(heap, graph)} :
        /\ heap' = out.heap
        /\ result' = out.result
        /\ history' = Append(history, [input |-> snapshot,
                                       output |-> GraphValue(out.result, out.heap)])
  /\ pc' = "returned"
  /\ UNCHANGED <<CONFIG, graph, snapshot>>
  /\ LayoutFrame

Next == LayoutGraph

Spec == Init /\ [][Next]_vars

\* ---------------------------------------------------------------- repeated calls
\* A caller that lays out one graph after another
RepeatGraphs ==
  { Graph("TB", MixedNodes(2), Chain(2), <<>>,
          << Note(10, FALSE, << "a" >>, "above"), Note(10, FALSE, <<>>, "undefined") >>,
          << "title" >>),
    Graph("LR", MixedNodes(3), Chain(3), << [id |-> "g1", nodeIds |-> << "a", "c" >>] >>,
          << Note(80, FALSE, <<>>, "undefined"), Note(80, FALSE, << "b" >>, "below") >>,
          <<>>),
    Graph("LR", PlainNodes(2), << Conn("a", "c") >>, <<>>, <<>>, <<>>),
    Graph("LR", PlainNodes(3), FanOut(3), <<>>, <<>>, <<>>),
    Graph("radial", PlainNodes(3), FanOut(3), <<>>,
          << Note(10, FALSE, << "c" >>, "left") >>, <<>>),
    Graph("TB", [i \in 1..2 |-> [PlainNode(i) EXCEPT !.row = << 1 >>, !.column = << i >>]],
          FanIn(2), <<>>, <<>>, <<>>) }

InitRepeat ==
  /\ LoopIdle
  /\ RenderIdle
  /\ TraversalIdle
  /\ ServicesIdle
  /\ CONFIG = ConfigInit
  /\ result = <<>>
  /\ pc = "called"
  /\ history = <<>>
  /\ \E g \in RepeatGraphs : Called(g)

\* The caller builds another graph and calls layoutGraph with it
Call ==
  /\ pc = "returned"
  /\ Len(history) < MaxCalls
  /\ \E g \in RepeatGraphs :
       /\ heap' = heap \o g.nodes
       /\ graph' = GraphObject(g, heap)
       /\ snapshot' = g
  /\ pc' = "called"
  /\ UNCHANGED <<CONFIG, result, history>>
  /\ LayoutFrame

\* The caller calls layoutGraph once more with the graph object it holds
CallAgain ==
  /\ pc = "returned"
  /\ Len(history) < MaxCalls
  /\ snapshot' = GraphValue(graph, heap)
  /\ pc' = "called"
  /\ UNCHANGED <<CONFIG, heap, graph, result, history>>
  /\ LayoutFrame

NextRepeat == LayoutGraph \/ Call \/ CallAgain

SpecRepeat == InitRepeat /\ [][NextRepeat]_vars

\* ---------------------------------------------------------------- unvalidated graphs
\* Graphs as they are parsed from a reply: validateGraph looks at ids, labels,
\* connections and groups, not at importance, and layoutGraph is also called without it.
\* Node bad (if any) has an importance that is no key of CONFIG.nodeSizes.
ParsedGraphs(n) ==
  {Graph(d, [i \in 1..n |-> IF i = bad THEN [MixedNode(i) EXCEPT !.importance = "critical"]
                                       ELSE MixedNode(i)],
         cs, gs, ns, <<>>) :
     d \in Directions, bad \in 0..n,
     cs \in {<<>>, Chain(n) \o << Conn(IdNames[n], Dangling) >>,
             FanOut(n) \o << Conn(Dangling, "a") >>},
     gs \in {<<>>, << [id |-> "g1", nodeIds |-> << Dangling >>] >>,
             << [id |-> "g1", nodeIds |-> << "a", Dangling >>],
                [id |-> "g2", nodeIds |-> << >>] >>},
     ns \in {<<>>, << Note(4, TRUE, <<>>, "undefined"),
                      Note(10, FALSE, << Dangling >>, "left") >>}}

InitParsed ==
  /\ LoopIdle
  /\ RenderIdle
  /\ TraversalIdle
  /\ ServicesIdle
  /\ CONFIG = ConfigInit
  /\ result = <<>>
  /\ pc = "called"
  /\ history = <<>>
  /\ \E n \in 1..MaxNodes : \E g \in ParsedGraphs(n) : Called(g)

\* layoutGraph raises a TypeError and returns nothing
LayoutGraphRaises ==
  /\ pc = "called"
  /\ Raises(heap, graph)
  /\ pc' = "raised"
  /\ UNCHANGED <<CONFIG, heap, graph, result, snapshot, history>>
  /\ LayoutFrame

NextParsed == LayoutGraph \/ LayoutGraphRaises

SpecParsed == InitParsed /\ [][NextParsed]_vars

\* ---------------------------------------------------------------- chains with nodes off the chain
MaxSnake == 7

\* n nodes of which the first k lie on one chain; the connection list in both orders,
\* with a second connection into the last chain node, or with a dangling connection
\* behind the chain; the other nodes isolated or linked; one node may carry hints;
\* the node list as it is or with its last node first.
SnakeGraphs(n, k) ==
  {Graph(d, [i \in 1..n |->
               LET j == IF first THEN (IF i = 1 THEN n ELSE i - 1) ELSE i
               IN IF j = hinted
                  THEN [PlainNode(j) EXCEPT !.row = << 1 >>, !.column = << 0 >>]
                  ELSE PlainNode(j)],
         cs \o tail, <<>>, <<>>, <<>>) :
     d \in {"LR", "TB"}, first \in BOOLEAN, hinted \in {0, 2, n} \cap 0..n,
     cs \in {Chain(k), Reverse(Chain(k)), Append(Chain(k), Conn("a", IdNames[k])),
             Append(Chain(k), Conn(IdNames[k], Dangling))},
     tail \in {<<>>} \cup (IF n - k >= 2 THEN {<< Conn(IdNames[k + 1], IdNames[n]) >>}
                                        ELSE {})}

InitSnake ==
  /\ LoopIdle
  /\ RenderIdle
  /\ TraversalIdle
  /\ ServicesIdle
  /\ CONFIG = ConfigInit
  /\ result = <<>>
  /\ pc = "called"
  /\ history = <<>>
  /\ \E n \in 1..MaxSnake : \E k \in 1..n : \E g \in SnakeGraphs(n, k) : Called(g)

SpecSnake == InitSnake /\ [][Next]_vars

\* ---------------------------------------------------------------- lists of notes
MaxStack == 3

\* Floating notes, a blank one, one attached to a missing node, two attached to node a
StackChoices ==
  { Note(10, FALSE, <<>>, "undefined"), Note(80, FALSE, <<>>, "undefined"),
    Note(4, TRUE, <<>>, "undefined"), Note(10, FALSE, << Dangling >>, "left"),
    Note(10, FALSE, << "a" >>, "right"), Note(10, FALSE, << "a" >>, "undefined") }

\* A chain of n mixed nodes with every list of at most MaxStack of these notes
StackedGraphs(n) ==
  {Graph(d, MixedNodes(n), Chain(n), <<>>, ns, <<>>) :
     d \in Directions, ns \in SeqsUpTo(StackChoices, MaxStack)}

InitNotes ==
  /\ LoopIdle
  /\ RenderIdle
  /\ TraversalIdle
  /\ ServicesIdle
  /\ CONFIG = ConfigInit
  /\ result = <<>>
  /\ pc = "called"
  /\ history = <<>>
  /\ \E n \in 1..2 : \E g \in StackedGraphs(n) : Called(g)

SpecNotes == InitNotes /\ [][Next]_vars

\* ---------------------------------------------------------------- feedback loop
\* runFeedbackLoop and runMermaidFeedbackLoop (same control flow): the layout
\* variables stay as they are, the graph or Mermaid text being what the model replies.
MaxRounds == 10
MaxInvocations == 2

\* What showInputBox resolves to: undefined on Escape, else the text typed
Feedbacks == {"undefined", "", "   ", "add a cache"}

\* !feedback || feedback.trim() === ''
IsNoFeedback(feedback) == feedback \in {"undefined", "", "   "}

\* while (iteration <= 10)
LoopContinuesInclusive(i) == i <= MaxRounds

\* while (iteration < 10)
LoopContinues(i) == i < MaxRounds

\* The loop is entered after the first diagram was rendered
InitFeedback ==
  /\ LayoutIdle
  /\ RenderIdle
  /\ TraversalIdle
  /\ ServicesIdle
  /\ pipeline \in {"dsl", "mermaid"}
  /\ loopPc = IF LoopContinues(0) THEN "ask" ELSE "offer"
  /\ iteration = 0
  /\ invocation = 1
  /\ sent = 0

\* showInputBox resolves: no feedback breaks the loop, else iteration++ and the
\* feedback goes to the model
ShowInputBox ==
  /\ loopPc = "ask"
  /\ \E feedback \in Feedbacks :
       IF IsNoFeedback(feedback)
       THEN /\ loopPc' = "offer"
            /\ UNCHANGED <<iteration, sent>>
       ELSE /\ iteration' = iteration + 1
            /\ sent' = sent + 1
            /\ loopPc' = "apply"
  /\ UNCHANGED <<pipeline, invocation>>
  /\ LoopFrame

\* withProgress: the refinement succeeds and is rendered, or fails and the error is
\* shown; in both cases the loop condition is tested next
Refine ==
  /\ loopPc = "apply"
  /\ loopPc' = IF LoopContinues(iteration) THEN "ask" ELSE "offer"
  /\ UNCHANGED <<pipeline, iteration, invocation, sent>>
  /\ LoopFrame

\* The user picks 'Continue Refining': the loop function calls itself
ContinueRefining ==
  /\ loopPc = "offer"
  /\ invocation < MaxInvocations
  /\ invocation' = invocation + 1
  /\ iteration' = 0
  /\ loopPc' = IF LoopContinues(0) THEN "ask" ELSE "offer"
  /\ UNCHANGED <<pipeline, sent>>
  /\ LoopFrame

\* The user dismisses the notification: the loop function returns
Finish ==
  /\ loopPc = "offer"
  /\ loopPc' = "done"
  /\ UNCHANGED <<pipeline, iteration, invocation, sent>>
  /\ LoopFrame

NextFeedback == ShowInputBox \/ Refine \/ ContinueRefining \/ Finish

SpecFeedback == InitFeedback /\ [][NextFeedback]_vars

\* ---------------------------------------------------------------- arrows
\* createConnectionElement, the points of the arrow.  Coordinates are in units of
\* 1/Sub pixel, the end points multiples of half a pixel, so that dx / 2, dy / 2 and
\* Math.abs(dy) * 0.15 are exact.
Sub == 40
HalfPx == Sub \div 2
MaxDelta == 3

\* createConnectionElement drawing every arrow as one straight segment
createConnectionElementStraight(conn, direction) ==
  << <<0, 0>>, <<conn.toX - conn.fromX, conn.toY - conn.fromY>> >>

createConnectionElement(conn, direction) ==
  LET dx == conn.toX - conn.fromX
      dy == conn.toY - conn.fromY
      routeY == IF dy > 0 THEN Min(40 * Sub, (Abs(dy) * 15) \div 100)
                ELSE 0 - Min(40 * Sub, (Abs(dy) * 15) \div 100)
  IN IF Abs(dx) < 1 * Sub \/ Abs(dy) < 1 * Sub
     THEN << <<0, 0>>, <<dx, dy>> >>
     ELSE IF Abs(dx) >= Abs(dy)
     THEN << <<0, 0>>, <<dx \div 2, 0>>, <<dx \div 2, dy>>, <<dx, dy>> >>
     ELSE IF direction = "TB"
     THEN << <<0, 0>>, <<0, routeY>>, <<dx, routeY>>, <<dx, dy>> >>
     ELSE << <<0, 0>>, <<0, dy \div 2>>, <<dx, dy \div 2>>, <<dx, dy>> >>

\* Differences of the end points: up to MaxDelta half pixels, and 150 and 400 pixels
Deltas ==
  {d * HalfPx : d \in (0 - MaxDelta)..MaxDelta}
    \cup {150 * Sub, 0 - 150 * Sub, 400 * Sub, 0 - 400 * Sub}

\* renderToExcalidraw is about to create the arrow of one positioned connection
InitArrow ==
  /\ LayoutIdle
  /\ LoopIdle
  /\ TraversalIdle
  /\ ServicesIdle
  /\ arrowPoints = <<>>
  /\ \E dx \in Deltas, dy \in Deltas, direction \in Directions \cup {"undefined"} :
       arrow = [conn |-> [fromX |-> 300 * Sub, fromY |-> 240 * Sub,
                          toX |-> 300 * Sub + dx, toY |-> 240 * Sub + dy],
                direction |-> direction]

CreateConnectionElement ==
  /\ arrow # <<>>
  /\ arrowPoints = <<>>
  /\ arrowPoints' = createConnectionElement(arrow.conn, arrow.direction)
  /\ UNCHANGED arrow
  /\ RenderFrame

NextArrow == CreateConnectionElement

SpecArrow == InitArrow /\ [][NextArrow]_vars

\* ---------------------------------------------------------------- the loops, by step
\* The two while loops of the layout, one iteration per step: the rank traversal of
\* assignRanks and the chain walk of applySnakeLayout.  Every other loop of layoutGraph
\* runs once over an array that it does not extend.

\* Every connection over n nodes and the dangling id, self-loops included
AnyPairs(n) == {Conn(u, v) : u \in Range(IdsAndDangling(n)), v \in Range(IdsAndDangling(n))}

\* n plain nodes and every list of up to m such connections, in TB and in LR
LoopedGraphs(n, m) ==
  {Graph(d, PlainNodes(n), cs, <<>>, <<>>, <<>>) :
     d \in {"TB", "LR"}, cs \in SeqsUpTo(AnyPairs(n), m)}

\* assignRanks has built its adjacency lists and filled the queue with the roots
InitTraverse ==
  /\ LayoutIdle
  /\ LoopIdle
  /\ RenderIdle
  /\ ServicesIdle
  /\ \E g \in LoopedGraphs(MaxNodes - 1, MaxConns) :
       traversal = [pc |-> "ranks", direction |-> g.direction,
                    nodes |-> g.nodes, connections |-> g.connections,
                    queue |-> InitialQueue(g.nodes, g.connections),
                    nodeRanks |-> <<>>, expanded |-> <<>>,
                    current |-> <<>>, chain |-> <<>>]

\* The queue's head is taken and was visited before; its children are queued again.
\* The step stops once more ids were expanded than connections and nodes exist.
RevisitRequeue ==
  /\ traversal.pc = "ranks"
  /\ traversal.queue # <<>>
  /\ RanksHas(traversal.nodeRanks, Head(traversal.queue).id)
  /\ Len(traversal.expanded) <= 2 * (MaxNodes + MaxConns)
  /\ LET id == Head(traversal.queue).id
         rank == Head(traversal.queue).rank
         children == OutgoingOf(traversal.connections, id)
     IN traversal' =
          [traversal EXCEPT
             !.queue = Tail(@) \o
                         [i \in 1..Len(children) |-> [id |-> children[i], rank |-> rank + 1]],
             !.nodeRanks = RanksSet(@, id, Max(RanksGet(@, id), rank)),
             !.expanded = Append(@, id)]
  /\ TraversalFrame

\* The queue's head is taken and was visited before: update to max rank, continue
Revisit ==
  /\ traversal.pc = "ranks"
  /\ traversal.queue # <<>>
  /\ RanksHas(traversal.nodeRanks, Head(traversal.queue).id)
  /\ LET id == Head(traversal.queue).id
         rank == Head(traversal.queue).rank
     IN traversal' =
          [traversal EXCEPT
             !.queue = Tail(@),
             !.nodeRanks = RanksSet(@, id, Max(RanksGet(@, id), rank))]
  /\ TraversalFrame

\* The queue's head is taken for the first time: it gets its rank and its children
\* are queued
Expand ==
  /\ traversal.pc = "ranks"
  /\ traversal.queue # <<>>
  /\ ~RanksHas(traversal.nodeRanks, Head(traversal.queue).id)
  /\ LET id == Head(traversal.queue).id
         rank == Head(traversal.queue).rank
         children == OutgoingOf(traversal.connections, id)
     IN traversal' =
          [traversal EXCEPT
             !.queue = Tail(@) \o
                         [i \in 1..Len(children) |-> [id |-> children[i], rank |-> rank + 1]],
             !.nodeRanks = RanksSet(@, id, rank),
             !.expanded = Append(@, id)]
  /\ TraversalFrame

\* The queue is empty: the disconnected nodes get their ranks, and in LR
\* applySnakeLayout starts its walk at the first node without incoming connection,
\* unless the connections are not a simple chain or there is no such node
FinishRanks ==
  /\ traversal.pc = "ranks"
  /\ traversal.queue = <<>>
  /\ LET reached == traversal.nodeRanks
         maxRank == SetMax({reached[i].rank : i \in 1..Len(reached)} \cup {0})
         starts == SelectSeq(traversal.nodes,
                             LAMBDA n : IncomingOf(traversal.connections, n.id) = <<>>)
         walks == /\ traversal.direction = "LR"
                  /\ ~NotSimpleChain(traversal.connections, 1, {}, {})
                  /\ starts # <<>>
     IN traversal' =
          [traversal EXCEPT
             !.nodeRanks = Disconnected(traversal.nodes, 1, reached, maxRank),
             !.pc = IF walks THEN "walk" ELSE "done",
             !.current = IF walks THEN << starts[1].id >> ELSE <<>>]
  /\ TraversalFrame

\* while (current) { chain.push(current); current = outgoing.get(current); }
WalkStep ==
  /\ traversal.pc = "walk"
  /\ traversal.current # <<>>
  /\ LET next == OutgoingOf(traversal.connections, traversal.current[1])
     IN traversal' =
          [traversal EXCEPT
             !.chain = Append(@, traversal.current[1]),
             !.current = IF next = <<>> THEN <<>> ELSE << next[1] >>]
  /\ TraversalFrame

\* current is undefined: the walk is over
FinishWalk ==
  /\ traversal.pc = "walk"
  /\ traversal.current = <<>>
  /\ traversal' = [traversal EXCEPT !.pc = "done"]
  /\ TraversalFrame

NextTraverse == Revisit \/ Expand \/ FinishRanks \/ WalkStep \/ FinishWalk

\* The code runs to completion on one thread: a loop that can take a step takes it
SpecTraverse == InitTraverse /\ [][NextTraverse]_vars /\ WF_vars(NextTraverse)

\* ---------------------------------------------------------------- note elements
\* The number of lines wrapText(fullText, 28) can give for a note text of that length:
\* fullText is the text behind the 11 characters of the prefix and 'Pro Tip: '.  It is
\* one line when it has at most 28 characters; else the words decide, between two
\* lines and one line for every 14 characters.
NoteLines(text) ==
  LET fullLength == text.len + 12
  IN IF fullLength <= 28 THEN {1} ELSE 2..CeilDiv(fullLength, 14)

\* The background rectangle createNoteElements draws for a positioned note whose
\* text wraps into that many lines, in half units (lineH is 17.5 pixels):
\* x: note.x - note.width / 2, y: note.y - boxHeight / 2
createNoteElements(note, lines) ==
  LET textHeight == lines * 35 * Scale
      boxHeight == textHeight + 2 * Px(30)
  IN [ x |-> 2 * note.x - note.width,
       y |-> 2 * note.y - boxHeight,
       width |-> 2 * note.width,
       height |-> 2 * boxHeight ]

\* ---------------------------------------------------------------- validateGraph
\* SemanticDiagramService.validateGraph on the value JSON.parse gave.  A property is a
\* sequence: <<>> is undefined (or not an array), <<v>> is v; a string may be empty.
MaxParsed == 2

\* !v for a string property: undefined or the empty string
Falsy(v) == v = <<>> \/ v = << "" >>

ParsedNode(id, type, label) == [id |-> id, type |-> type, label |-> label]

ParsedNodeChoices ==
  { ParsedNode(<< "a" >>, <<>>, << "A" >>), ParsedNode(<< "b" >>, << "database" >>, << " " >>),
    ParsedNode(<< "a" >>, << "process" >>, <<>>), ParsedNode(<< "b" >>, <<>>, << "" >>),
    ParsedNode(<<>>, <<>>, << "C" >>), ParsedNode(<< "" >>, <<>>, << "D" >>) }

ParsedConnChoices ==
  { [from |-> << "a" >>, to |-> << "b" >>], [from |-> << "a" >>, to |-> << Dangling >>],
    [from |-> <<>>, to |-> << "b" >>], [from |-> << "b" >>, to |-> << "" >>] }

ParsedGroup(nodeIds) == [id |-> "g", nodeIds |-> nodeIds]

ParsedGroupChoices ==
  { <<>>, << <<>> >>, << << ParsedGroup(<< "a" >>) >> >>,
    << << ParsedGroup(<< Dangling >>) >> >>,
    << << ParsedGroup(<< "a", Dangling >>), ParsedGroup(<< Dangling >>) >> >>,
    << << ParsedGroup(<<>>), ParsedGroup(<< "a", "b" >>) >> >> }

\* What JSON.parse can hand to validateGraph: null, or an object with these properties
ParsedValues ==
  {<<>>} \cup
  { << [direction |-> d, nodes |-> ns, connections |-> cs, groups |-> gs] >> :
      d \in {<<>>, << "TB" >>},
      ns \in {<<>>} \cup {<< l >> : l \in SeqsUpTo(ParsedNodeChoices, MaxParsed)},
      cs \in {<<>>} \cup {<< l >> : l \in SeqsUpTo(ParsedConnChoices, MaxParsed)},
      gs \in ParsedGroupChoices }

\* The loop over the nodes: the message of the first error, or <<>>
RECURSIVE NodeError(_, _, _)
NodeError(nodes, i, nodeIds) ==
  IF i > Len(nodes) THEN <<>>
  ELSE IF Falsy(nodes[i].id) THEN << "Every node must have an \"id\"" >>
  ELSE IF Falsy(nodes[i].label) THEN << "Node missing required \"label\" field" >>
  ELSE IF nodes[i].id[1] \in nodeIds THEN << "Duplicate node ID" >>
  ELSE NodeError(nodes, i + 1, nodeIds \cup {nodes[i].id[1]})

\* The error validateGraph throws on value v, or <<>> when it returns
ValidationError(v) ==
  IF v = <<>> THEN << "Graph is null or undefined" >>
  ELSE IF v[1].nodes = <<>> \/ v[1].nodes[1] = <<>>
       THEN << "Graph must have at least one node" >>
       ELSE NodeError(v[1].nodes[1], 1, {})

\* validateGraph with every connection kept
validateGraphKeepingConnections(g) ==
  LET nodes == g.nodes[1]
      nodeIds == {nodes[i].id[1] : i \in 1..Len(nodes)}
  IN [ direction |-> IF Falsy(g.direction) THEN << "LR" >> ELSE g.direction,
       nodes |-> << [i \in 1..Len(nodes) |->
                       IF Falsy(nodes[i].type)
                       THEN [nodes[i] EXCEPT !.type = << "process" >>] ELSE nodes[i]] >>,
       connections |-> IF g.connections = <<>> THEN << <<>> >> ELSE g.connections,
       groups |->
         IF g.groups = <<>> THEN <<>>
         ELSE << SelectSeq(
                   [i \in 1..Len(g.groups[1]) |->
                      [g.groups[1][i] EXCEPT
                         !.nodeIds = SelectSeq(@, LAMBDA id : id \in nodeIds)]],
                   LAMBDA group : Len(group.nodeIds) > 0) >> ]

\* The graph validateGraph leaves behind when it returns: the defaults are filled in,
\* the connections and the groups are filtered
validateGraph(g) ==
  LET nodes == g.nodes[1]
      nodeIds == {nodes[i].id[1] : i \in 1..Len(nodes)}
  IN [ direction |-> IF Falsy(g.direction) THEN << "LR" >> ELSE g.direction,
       nodes |-> << [i \in 1..Len(nodes) |->
                       IF Falsy(nodes[i].type)
                       THEN [nodes[i] EXCEPT !.type = << "process" >>] ELSE nodes[i]] >>,
       connections |->
         IF g.connections = <<>> THEN << <<>> >>
         ELSE << SelectSeq(g.connections[1],
                           LAMBDA conn : /\ ~Falsy(conn.from) /\ ~Falsy(conn.to)
                                         /\ conn.from[1] \in nodeIds
                                         /\ conn.to[1] \in nodeIds) >>,
       groups |->
         IF g.groups = <<>> THEN <<>>
         ELSE << SelectSeq(
                   [i \in 1..Len(g.groups[1]) |->
                      [g.groups[1][i] EXCEPT
                         !.nodeIds = SelectSeq(@, LAMBDA id : id \in nodeIds)]],
                   LAMBDA group : Len(group.nodeIds) > 0) >> ]

\* parseGraphFromResponse has parsed the model's reply and calls validateGraph
InitValidate ==
  /\ LayoutIdle
  /\ LoopIdle
  /\ RenderIdle
  /\ TraversalIdle
  /\ GenerationIdle /\ ExecutionIdle /\ WebviewIdle
  /\ \E v \in ParsedValues : validation = [pc |-> "parsed", input |-> v]

ValidateGraphReturns ==
  /\ validation.pc = "parsed"
  /\ ValidationError(validation.input) = <<>>
  /\ validation' = [pc |-> "returned", input |-> validation.input,
                    graph |-> validateGraph(validation.input[1])]
  /\ ValidationFrame

ValidateGraphThrows ==
  /\ validation.pc = "parsed"
  /\ ValidationError(validation.input) # <<>>
  /\ validation' = [pc |-> "thrown", input |-> validation.input,
                    error |-> ValidationError(validation.input)[1]]
  /\ ValidationFrame

NextValidate == ValidateGraphReturns \/ ValidateGraphThrows

SpecValidate == InitValidate /\ [][NextValidate]_vars

\* ---------------------------------------------------------------- generation retries
\* SemanticDiagramService.generateGraphFromThinking.  An attempt is the request, the
\* reading of the response, parseGraphFromResponse and validateGraph; it gives a graph
\* or the error one of them throws.
MaxAttempts == 3

\* What an attempt can end with
Graphs == {"graph 1", "graph 2"}
Errors ==
  { "request failed", "Could not parse JSON", "Graph must have at least one node",
    "Duplicate node ID" }

\* The conversation before the first attempt
generationMessages ==
  << "thinkingPrompt", "Create a diagram for: userPrompt", "thinkingOutput",
     "generationPrompt" >>

ErrorMessage(e) == << "Error: ", e, ". Output ONLY valid JSON." >>

\* for (...; attempt <= 3; ...)
AttemptsLeftInclusive(attempt) == attempt <= MaxAttempts

\* for (let attempt = 0; attempt < 3; attempt++)
AttemptsLeft(attempt) == attempt < MaxAttempts

InitGenerate ==
  /\ LayoutIdle
  /\ LoopIdle
  /\ RenderIdle
  /\ TraversalIdle
  /\ ValidationIdle /\ ExecutionIdle /\ WebviewIdle
  /\ generation = [pc |-> "loop", attempt |-> 0, messages |-> generationMessages,
                   lastError |-> <<>>, requests |-> <<>>, outcomes |-> <<>>]

\* An attempt whose response parses and validates: return graph
AttemptSucceeds ==
  /\ generation.pc = "loop"
  /\ AttemptsLeft(generation.attempt)
  /\ \E g \in Graphs :
       generation' = [generation EXCEPT
                        !.pc = "returned",
                        !.requests = Append(@, generation.messages),
                        !.outcomes = Append(@, [ok |-> TRUE, value |-> g])]
  /\ GenerationFrame

\* An attempt that throws: the catch block keeps the error, appends a message to the
\* conversation when attempt < 2, and the loop goes on
AttemptFails ==
  /\ generation.pc = "loop"
  /\ AttemptsLeft(generation.attempt)
  /\ \E e \in Errors :
       generation' = [generation EXCEPT
                        !.lastError = << e >>,
                        !.messages = IF generation.attempt < 2
                                     THEN Append(@, ErrorMessage(e)) ELSE @,
                        !.attempt = @ + 1,
                        !.requests = Append(@, generation.messages),
                        !.outcomes = Append(@, [ok |-> FALSE, value |-> e])]
  /\ GenerationFrame

\* throw lastError || new Error('Failed to generate diagram')
ThrowLastError ==
  /\ generation.pc = "loop"
  /\ ~AttemptsLeft(generation.attempt)
  /\ generation' = [generation EXCEPT
                      !.pc = "thrown",
                      !.lastError = IF @ = <<>> THEN << "Failed to generate diagram" >>
                                    ELSE @]
  /\ GenerationFrame

NextGenerate == AttemptSucceeds \/ AttemptFails \/ ThrowLastError

SpecGenerate == InitGenerate /\ [][NextGenerate]_vars

\* ---------------------------------------------------------------- ExecutionLoop
\* One ExecutionLoop object and the calls of its methods.  execute() is async: between
\* its awaits (the LLM chat, the tool calls, the screenshot) other calls of execute(),
\* abort() and clearHistory() run.  A step of a call is what it does from one await
\* to the next.  Each call keeps, as history, the tool calls of its previous iteration.
MaxIterations == 3
MaxExecutes == 2
maxConsecutiveErrors == 3

\* The tool calls of a response, by name and arguments
ToolBatches == { << "rect" >>, << "rect", "text" >>, << "text", "rect" >> }

\* The names and arguments of the calls, sorted and joined: what does not depend on
\* their order
Signature(toolCalls) ==
  [name \in {"rect", "text"} |->
     Cardinality({i \in 1..Len(toolCalls) : toolCalls[i] = name})]

detectLoop(lastToolCalls, currentCalls) ==
  IF Len(lastToolCalls) = 0 THEN FALSE
  ELSE IF Len(currentCalls) # Len(lastToolCalls) THEN FALSE
  ELSE Signature(currentCalls) = Signature(lastToolCalls)

\* return from inside the try block, or from the catch block; then the finally block.
\* The locals of the call are gone; those of a call that reported a loop are kept as
\* history.
ReturnResult(e, c, success, message) ==
  LET reported == message = "Detected infinite loop in tool calls"
  IN [e EXCEPT !.state.isRunning = FALSE,
               !.abortController = <<>>,
               !.calls[c] = [at |-> "returned",
                             toolCalls |-> IF reported THEN @.toolCalls ELSE <<>>,
                             previous |-> IF reported THEN @.previous ELSE <<>>,
                             batches |-> IF reported THEN @.batches ELSE 0,
                             result |-> << [success |-> success, message |-> message] >>]]

\* The head of the while loop up to the await of llmService.chat
LoopHead(e, c) ==
  IF e.state.iterationCount < MaxIterations
  THEN IF e.abortController = <<>>
       THEN ReturnResult(e, c, FALSE, "Cannot read properties of null")
       ELSE IF e.abortController[1].aborted
       THEN ReturnResult(e, c, FALSE, "Execution aborted")
       ELSE [e EXCEPT !.state.iterationCount = @ + 1, !.calls[c].at = "chat"]
  ELSE ReturnResult(e, c, FALSE, "Reached maximum iterations")

\* The end of an iteration with tool calls: updateSystemPrompt, lastToolCalls
EndIteration(e, c) ==
  LoopHead([e EXCEPT
              !.conversationHistory = IF @ = <<>> THEN << "system" >>
                                      ELSE [@ EXCEPT ![1] = "system"],
              !.state.lastToolCalls = e.calls[c].toolCalls,
              !.calls[c].previous = e.calls[c].toolCalls],
           c)

\* The object after its constructor, with or without a screenshot provider
InitExecution ==
  /\ LayoutIdle
  /\ LoopIdle
  /\ RenderIdle
  /\ TraversalIdle
  /\ ValidationIdle /\ GenerationIdle /\ WebviewIdle
  /\ \E provider \in BOOLEAN :
       execution = [pc |-> "constructed",
                    state |-> [isRunning |-> FALSE, iterationCount |-> 0,
                               lastToolCalls |-> <<>>, errorCount |-> 0],
                    conversationHistory |-> <<>>,
                    abortController |-> <<>>,
                    getScreenshot |-> provider,
                    calls |-> <<>>]

NewCall == [at |-> "called", toolCalls |-> <<>>, previous |-> <<>>, batches |-> 0,
            result |-> <<>>]

\* execute() without the test of isRunning
ExecuteUnguarded ==
  /\ execution.pc = "constructed"
  /\ Len(execution.calls) < MaxExecutes
  /\ LET c == Len(execution.calls) + 1
     IN execution' =
          LoopHead([execution EXCEPT
                      !.state.isRunning = TRUE,
                      !.state.iterationCount = 0,
                      !.state.errorCount = 0,
                      !.abortController = << [aborted |-> FALSE] >>,
                      !.conversationHistory = << "system", "user" >>,
                      !.calls = Append(@, NewCall)],
                   c)
  /\ ExecutionFrame

\* execute(userPrompt) up to its first await
Execute ==
  /\ execution.pc = "constructed"
  /\ Len(execution.calls) < MaxExecutes
  /\ LET c == Len(execution.calls) + 1
     IN execution' =
          IF execution.state.isRunning
          THEN [execution EXCEPT
                  !.calls = Append(@, [NewCall EXCEPT
                                         !.at = "returned",
                                         !.result = << [success |-> FALSE,
                                                        message |-> "Execution already in progress"] >>])]
          ELSE LoopHead([execution EXCEPT
                           !.state.isRunning = TRUE,
                           !.state.iterationCount = 0,
                           !.state.errorCount = 0,
                           !.abortController = << [aborted |-> FALSE] >>,
                           !.conversationHistory = << "system", "user" >>,
                           !.calls = Append(@, NewCall)],
                        c)
  /\ ExecutionFrame

\* llmService.chat throws
ChatThrows(c) ==
  /\ execution.calls[c].at = "chat"
  /\ execution' = ReturnResult(execution, c, FALSE, "LLM request failed")
  /\ ExecutionFrame

\* The response has no tool calls: done when finishReason is 'stop', else the next
\* iteration
ChatWithoutToolCalls(c) ==
  /\ execution.calls[c].at = "chat"
  /\ \E finishReason \in {"stop", "length"} :
       execution' =
         IF finishReason = "stop"
         THEN ReturnResult(execution, c, TRUE, "Diagram generation complete")
         ELSE LoopHead([execution EXCEPT !.calls[c].toolCalls = <<>>,
                                         !.calls[c].previous = <<>>], c)
  /\ ExecutionFrame

\* The response has tool calls: stop when detectLoop says so, else the assistant
\* message goes to the history and the tools are executed
ChatWithToolCalls(c) ==
  /\ execution.calls[c].at = "chat"
  /\ \E toolCalls \in ToolBatches :
       LET e == [execution EXCEPT !.calls[c].toolCalls = toolCalls,
                                  !.calls[c].batches = @ + 1]
       IN execution' =
            IF detectLoop(execution.state.lastToolCalls, toolCalls)
            THEN ReturnResult(e, c, FALSE, "Detected infinite loop in tool calls")
            ELSE [e EXCEPT !.conversationHistory = Append(@, "assistant"),
                           !.calls[c].at = "tools"]
  /\ ExecutionFrame

\* executeToolCalls has returned its results, or a tool has thrown
ToolsDone(c) ==
  /\ execution.calls[c].at = "tools"
  /\ \E outcome \in {"throws", "finished", "all failed", "some succeeded"} :
       LET errorCount == IF outcome = "all failed" THEN execution.state.errorCount + 1
                         ELSE 0
           toolCalls == execution.calls[c].toolCalls
           e == [execution EXCEPT
                   !.state.errorCount = errorCount,
                   !.conversationHistory = @ \o [i \in 1..Len(toolCalls) |-> "tool"]]
       IN execution' =
            IF outcome = "throws" THEN ReturnResult(execution, c, FALSE, "tool failed")
            ELSE IF outcome = "finished" THEN ReturnResult(execution, c, TRUE, "Diagram complete")
            ELSE IF errorCount >= maxConsecutiveErrors
            THEN ReturnResult([execution EXCEPT !.state.errorCount = errorCount], c, FALSE,
                        "Too many consecutive errors")
            ELSE IF execution.getScreenshot /\ execution.state.iterationCount > 0
            THEN [e EXCEPT !.calls[c].at = "screenshot"]
            ELSE EndIteration(e, c)
  /\ ExecutionFrame

\* The screenshot has arrived and goes to the history, or it failed
ScreenshotDone(c) ==
  /\ execution.calls[c].at = "screenshot"
  /\ \E ok \in BOOLEAN :
       execution' =
         EndIteration(IF ok THEN [execution EXCEPT !.conversationHistory = Append(@, "user")]
                      ELSE execution, c)
  /\ ExecutionFrame

\* abort()
Abort ==
  /\ execution.pc = "constructed"
  /\ execution.abortController # <<>>
  /\ execution' = [execution EXCEPT !.abortController = << [aborted |-> TRUE] >>]
  /\ ExecutionFrame

\* clearHistory()
ClearHistory ==
  /\ execution.pc = "constructed"
  /\ execution' = [execution EXCEPT !.conversationHistory = <<>>,
                                    !.state.lastToolCalls = <<>>]
  /\ ExecutionFrame

NextExecution ==
  \/ Execute
  \/ Abort
  \/ ClearHistory
  \/ \E c \in 1..Len(execution.calls) : ChatThrows(c)
  \/ \E c \in 1..Len(execution.calls) : ChatWithoutToolCalls(c)
  \/ \E c \in 1..Len(execution.calls) : ChatWithToolCalls(c)
  \/ \E c \in 1..Len(execution.calls) : ToolsDone(c)
  \/ \E c \in 1..Len(execution.calls) : ScreenshotDone(c)

SpecExecution == InitExecution /\ [][NextExecution]_vars

\* ---------------------------------------------------------------- tool calls
\* ToolExecutor.execute and ExcalidrawPanel.  The ExecutionLoop awaits one tool call
\* after the other.  A call posts its message, awaits sendMessage, and only then
\* waitForResult registers pendingResult.  The WebView answers a message it got with a
\* reply at a moment of its own; a reply travels to handleMessage; the timer of
\* waitForResult fires when the reply has not come, and no reply is on its way then
\* (5 seconds are longer than a reply travels).
MaxToolCalls == 2

ToolNames == {"create_rectangle", "finish_diagram", "no_such_tool"}
ReplyTypes == {"operationComplete", "elementCreated", "error"}

\* What a call returns: where it comes from, and the reply when it is one
ToolResult(success, from, reply) == [success |-> success, from |-> from, reply |-> reply]

\* execute(toolCall) up to its first await, or to its return when there is none;
\* postMessage hands the message to the WebView, or does not (accepted)
ToolExecute ==
  /\ webview.pc = "open"
  /\ Len(webview.calls) < MaxToolCalls
  /\ \A c \in 1..Len(webview.calls) : webview.calls[c].at = "returned"
  /\ \E name \in ToolNames, accepted \in BOOLEAN :
       webview' =
         IF name = "create_rectangle"
         THEN [webview EXCEPT
                 !.calls = Append(@, [name |-> name, at |-> "sending",
                                      accepted |-> accepted, result |-> <<>>]),
                 !.delivered = IF accepted THEN @ \cup {Len(webview.calls) + 1} ELSE @]
         ELSE [webview EXCEPT
                 !.calls = Append(@, [name |-> name, at |-> "returned",
                                      accepted |-> FALSE,
                                      result |-> IF name = "finish_diagram"
                                                 THEN << ToolResult(TRUE, "finished", <<>>) >>
                                                 ELSE << ToolResult(FALSE, "Unknown tool",
                                                                    <<>>) >>])]
  /\ WebviewFrame

\* await this.sendMessage(message) is over: the message was posted, or it was not and
\* the call returns; then waitForResult registers pendingResult and its timer
SendResolves(c) ==
  /\ webview.calls[c].at = "sending"
  /\ webview' =
       IF webview.calls[c].accepted
       THEN [webview EXCEPT !.calls[c].at = "waiting", !.pendingResult = << c >>]
       ELSE [webview EXCEPT
               !.calls[c].at = "returned",
               !.calls[c].result =
                 << ToolResult(FALSE, "Failed to send message to WebView", <<>>) >>]
  /\ WebviewFrame

\* The WebView has handled the message of call c and posts its reply
WebViewReplies(c) ==
  /\ c \in webview.delivered
  /\ \E type \in ReplyTypes :
       webview' = [webview EXCEPT
                     !.delivered = @ \ {c},
                     !.replies = Append(@, [for |-> c, type |-> type]),
                     !.posted = @ \cup {c}]
  /\ WebviewFrame

\* handleMessage gets the oldest reply: it resolves the pending result, if there is one
HandleMessage ==
  /\ webview.pc = "open"
  /\ webview.replies # <<>>
  /\ LET reply == Head(webview.replies)
     IN webview' =
          IF webview.pendingResult # <<>>
          THEN [webview EXCEPT
                  !.replies = Tail(@),
                  !.pendingResult = <<>>,
                  !.calls[webview.pendingResult[1]].at = "returned",
                  !.calls[webview.pendingResult[1]].result =
                    << ToolResult(reply.type # "error", "WebView", << reply >>) >>]
          ELSE [webview EXCEPT !.replies = Tail(@), !.dropped = @ \cup {reply.for}]
  /\ WebviewFrame

\* The timer of waitForResult fires; timedOut keeps, as history, whether a reply had
\* been posted for the call by then
TimesOut(c) ==
  /\ webview.pendingResult = << c >>
  /\ webview.replies = <<>>
  /\ webview' = [webview EXCEPT
                   !.pendingResult = <<>>,
                   !.calls[c].at = "returned",
                   !.calls[c].result = << ToolResult(FALSE, "Operation timed out", <<>>) >>,
                   !.timedOut = @ \cup {[call |-> c, posted |-> c \in webview.posted]}]
  /\ WebviewFrame

InitWebview ==
  /\ LayoutIdle
  /\ LoopIdle
  /\ RenderIdle
  /\ TraversalIdle
  /\ ValidationIdle /\ GenerationIdle /\ ExecutionIdle
  /\ webview = [pc |-> "open", calls |-> <<>>, pendingResult |-> <<>>,
                delivered |-> {}, replies |-> <<>>, posted |-> {}, dropped |-> {},
                timedOut |-> {}]

NextWebview ==
  \/ ToolExecute
  \/ HandleMessage
  \/ \E c \in 1..Len(webview.calls) : SendResolves(c)
  \/ \E c \in 1..Len(webview.calls) : WebViewReplies(c)
  \/ \E c \in 1..Len(webview.calls) : TimesOut(c)

SpecWebview == InitWebview /\ [][NextWebview]_vars

\* ---------------------------------------------------------------- properties
Returned == pc = "returned"

\* The PositionedGraph of the call that returned, by value
Positioned == GraphValue(result, heap)

NodeIdsOf(g) == {g.nodes[i].id : i \in 1..Len(g.nodes)}

IsDangling(g, c) == c.from \notin NodeIdsOf(g) \/ c.to \notin NodeIdsOf(g)

NoDangling(g) == \A c \in Range(g.connections) : ~IsDangling(g, c)

NoHints(g) == \A n \in Range(g.nodes) : n.row = <<>> /\ n.column = <<>>

\* The positioned node of an id (ids are unique)
NodeOf(out, id) == CHOOSE n \in Range(out.nodes) : n.id = id

\* C1: the PositionedGraph has one positioned node per input node, with the same ids,
\* and exactly the E - k connections that do not dangle, so that every positioned
\* connection references two positioned nodes.
C1_DanglingConnectionsDropped ==
  Returned =>
    LET out == Positioned
        kept == SelectSeq(snapshot.connections, LAMBDA c : ~IsDangling(snapshot, c))
    IN /\ Len(out.nodes) = Len(snapshot.nodes)
       /\ \A i \in 1..Len(out.nodes) : out.nodes[i].id = snapshot.nodes[i].id
       /\ Len(out.connections) = Len(kept)
       /\ \A c \in Range(out.connections) :
            c.from \in NodeIdsOf(out) /\ c.to \in NodeIdsOf(out)

\* C2: in an acyclic graph whose nodes carry no hints every connection u -> v between
\* existing nodes has rank(u) < rank(v), and in TB mode, where the row is the rank, the
\* row of u is above the row of v.
C2_RankMonotone ==
  (Returned /\ NoHints(snapshot) /\ IsAcyclic(snapshot.connections)) =>
    LET nodeRanks == NodeRanks(snapshot.nodes, snapshot.connections)
    IN \A c \in Range(snapshot.connections) :
         ~IsDangling(snapshot, c) =>
           /\ RanksGet(nodeRanks, c.from) < RanksGet(nodeRanks, c.to)
           /\ snapshot.direction = "TB" =>
                NodeOf(Positioned, c.from).row[1] < NodeOf(Positioned, c.to).row[1]

\* C3: a node with explicit row and column hints is positioned at exactly that row and
\* column, with the centre computed from them, in every direction mode.
C3_HintsPreserved ==
  Returned =>
    \A i \in 1..Len(snapshot.nodes) :
      HasBothHints(snapshot.nodes[i]) =>
        LET n == Positioned.nodes[i]
            hint == snapshot.nodes[i]
        IN /\ n.row = hint.row
           /\ n.column = hint.column
           /\ n.x = Px(80 + hint.column[1] * 360 + 180)
           /\ n.y = Px(80 + 50 + hint.row[1] * 220 + 110)

\* C4: layoutGraph does not change its input: after the call the graph object has the
\* value it was called with, and the positioned nodes are objects of their own.
C4_InputUnchanged ==
  Returned =>
    /\ GraphValue(graph, heap) = snapshot
    /\ Range(result.nodes) \cap Range(graph.nodes) = {}

\* A call in LR mode in which snake wrapping moved a node that carries both hints
C4_Witness ==
  /\ Returned
  /\ snapshot.direction = "LR"
  /\ \E i \in 1..Len(snapshot.nodes) :
       /\ HasBothHints(snapshot.nodes[i])
       /\ Positioned.nodes[i].row # snapshot.nodes[i].row

\* C5: two calls with equal graphs return equal results, whatever was laid out before
\* or between them.
C5_Deterministic ==
  \A i \in 1..Len(history), j \in 1..Len(history) :
    history[i].input = history[j].input => history[i].output = history[j].output

\* Three calls, the first and the third with equal graphs, another graph between them
C5_Witness ==
  /\ Len(history) >= 3
  /\ history[1].input = history[3].input
  /\ history[2].input # history[1].input

\* The graph without its j-th connection
WithoutConnection(g, j) ==
  [g EXCEPT !.connections =
     SubSeq(g.connections, 1, j - 1) \o SubSeq(g.connections, j + 1, Len(g.connections))]

\* The PositionedGraph layoutGraph returns for a graph of value g
LayoutOf(g) ==
  LET out == layoutGraph(g.nodes, GraphObject(g, <<>>)) IN GraphValue(out.result, out.heap)

\* C6: a dangling connection does not affect the rest of the layout: the positioned
\* nodes and the points of all other connections are those of the same graph without it.
C6_DanglingIsolated ==
  Returned =>
    \A j \in 1..Len(snapshot.connections) :
      IsDangling(snapshot, snapshot.connections[j]) =>
        LET other == LayoutOf(WithoutConnection(snapshot, j))
        IN /\ Positioned.nodes = other.nodes
           /\ WithoutConnection(Positioned, j).connections = other.connections

\* C7: a group none of whose nodeIds is a node does not occur in the PositionedGraph;
\* every positioned group has a member that exists.
C7_DegenerateGroupDropped ==
  Returned =>
    \A g \in Range(Positioned.groups) :
      \E k \in 1..Len(g.nodeIds) : g.nodeIds[k] \in NodeIdsOf(snapshot)

\* Every node has at most one outgoing and one incoming connection, no connection
\* dangles, and the connections form one path through all nodes
IsSimpleChain(g) ==
  /\ NoDangling(g)
  /\ \A id \in NodeIdsOf(g) :
       Len(OutgoingOf(g.connections, id)) <= 1 /\ Len(IncomingOf(g.connections, id)) <= 1
  /\ IsAcyclic(g.connections)
  /\ Len(g.connections) = Len(g.nodes) - 1

\* The position of a node on the chain: the number of nodes before it
ChainIndex(g, id) ==
  Cardinality({u \in NodeIdsOf(g) : Reaches(g.connections, {u}, {u}, id)})

\* C8: in LR mode a simple chain of n nodes is wrapped into rows of c columns, c = 3 for
\* n <= 6 and 4 otherwise: chain index i lies in row i \div c, in column i % c on even
\* rows and c - 1 - (i % c) on odd rows.
C8_SnakePlacement ==
  (Returned /\ snapshot.direction = "LR" /\ IsSimpleChain(snapshot)) =>
    LET c == IF Len(snapshot.nodes) <= 6 THEN 3 ELSE 4
    IN \A n \in Range(Positioned.nodes) :
         LET i == ChainIndex(snapshot, n.id)
         IN /\ n.row = << i \div c >>
            /\ n.column = << IF (i \div c) % 2 = 0 THEN i % c ELSE c - 1 - (i % c) >>

\* The chain a -> b -> ... -> h laid out in rows 0,0,0,0,1,1,1,1 and columns
\* 0,1,2,3,3,2,1,0
C8_Witness ==
  /\ Returned
  /\ snapshot.direction = "LR"
  /\ Len(snapshot.nodes) = 8
  /\ snapshot.connections = Chain(8)
  /\ [i \in 1..8 |-> Positioned.nodes[i].row[1]] = <<0, 0, 0, 0, 1, 1, 1, 1>>
  /\ [i \in 1..8 |-> Positioned.nodes[i].column[1]] = <<0, 1, 2, 3, 3, 2, 1, 0>>

\* The side of box from on which box to lies: along the direction's axis when the boxes
\* differ on it, else along the axis of the larger distance
Side(from, to, direction) ==
  LET dx == to.x - from.x
      dy == to.y - from.y
      vertical == IF direction = "TB" /\ dy # 0 THEN TRUE
                  ELSE IF direction = "LR" /\ dx # 0 THEN FALSE
                  ELSE Abs(dx) <= Abs(dy)
  IN IF dx = 0 /\ dy = 0 THEN "none"
     ELSE IF vertical THEN (IF dy > 0 THEN "bottom" ELSE "top")
     ELSE IF dx > 0 THEN "right" ELSE "left"

\* The point (x, y) lies on the given edge of the box
OnEdge(box, side, x, y) ==
  CASE side = "bottom" -> y = box.y + box.height \div 2 /\ Abs(x - box.x) <= box.width \div 2
    [] side = "top" -> y = box.y - box.height \div 2 /\ Abs(x - box.x) <= box.width \div 2
    [] side = "right" -> x = box.x + box.width \div 2 /\ Abs(y - box.y) <= box.height \div 2
    [] side = "left" -> x = box.x - box.width \div 2 /\ Abs(y - box.y) <= box.height \div 2
    [] OTHER -> FALSE

\* The offset of the point from the centre of the box, along the edge
OffsetOn(box, side, x, y) ==
  IF side \in {"bottom", "top"} THEN x - box.x ELSE y - box.y

\* k offsets, pairwise distinct, evenly spaced and symmetric about 0
SpreadEvenly(offsets, k) ==
  LET lo == SetMin(offsets)
      hi == SetMax(offsets)
      step == (hi - lo) \div (k - 1)
  IN /\ Cardinality(offsets) = k
     /\ step > 0
     /\ offsets = {lo + r * step : r \in 0..(k - 1)}
     /\ \A o \in offsets : (0 - o) \in offsets
     /\ k = 3 => \E w \in offsets : w > 0 /\ offsets = {0 - w, 0, w}

\* The connections that leave node s: k >= 2 of them, to k distinct existing targets
\* that all lie on the same side of s
IsFanOut(out, s, cs) ==
  /\ cs = {i \in 1..Len(out.connections) : out.connections[i].from = s.id}
  /\ Cardinality(cs) >= 2
  /\ \A i \in cs : out.connections[i].to \in NodeIdsOf(out)
  /\ Cardinality({out.connections[i].to : i \in cs}) = Cardinality(cs)
  /\ \E side \in {"bottom", "top", "right", "left"} :
       \A i \in cs : Side(s, NodeOf(out, out.connections[i].to), out.direction) = side

\* The connections that enter node t: k >= 2 of them, from k distinct existing sources
\* that all lie on the same side of t
IsFanIn(out, t, cs) ==
  /\ cs = {i \in 1..Len(out.connections) : out.connections[i].to = t.id}
  /\ Cardinality(cs) >= 2
  /\ \A i \in cs : out.connections[i].from \in NodeIdsOf(out)
  /\ Cardinality({out.connections[i].from : i \in cs}) = Cardinality(cs)
  /\ \E side \in {"bottom", "top", "right", "left"} :
       \A i \in cs : Side(t, NodeOf(out, out.connections[i].from), out.direction) = side

ConnsFrom(out, s) == {i \in 1..Len(out.connections) : out.connections[i].from = s.id}
ConnsTo(out, t) == {i \in 1..Len(out.connections) : out.connections[i].to = t.id}

MembersOf(out, g) == {n \in Range(out.nodes) : n.id \in Range(g.nodeIds)}

\* C10: the rectangle of a group with an existing member contains the box of every
\* existing member with 35 of padding on the left, right and bottom and 35 + 25 on the
\* top, and it is the smallest such rectangle, so that nodeIds of no node do not
\* change it.
C10_GroupBox ==
  Returned =>
    LET out == Positioned
    IN \A g \in Range(out.groups) :
         LET members == MembersOf(out, g)
             lefts == {m.x - m.width \div 2 : m \in members}
             rights == {m.x + m.width \div 2 : m \in members}
             tops == {m.y - m.height \div 2 : m \in members}
             bottoms == {m.y + m.height \div 2 : m \in members}
         IN members # {} =>
              /\ \A v \in lefts : g.x <= v - Px(35)
              /\ \A v \in rights : g.x + g.width >= v + Px(35)
              /\ \A v \in tops : g.y <= v - Px(35 + 25)
              /\ \A v \in bottoms : g.y + g.height >= v + Px(35)
              /\ g.x + Px(35) \in lefts
              /\ g.x + g.width - Px(35) \in rights
              /\ g.y + Px(35 + 25) \in tops
              /\ g.y + g.height - Px(35) \in bottoms

\* A positioned group with two existing members in different cells and a nodeId that
\* is the id of no node
C10_Witness ==
  /\ Returned
  /\ \E g \in Range(Positioned.groups) :
       /\ Cardinality(MembersOf(Positioned, g)) >= 2
       /\ \E k \in 1..Len(g.nodeIds) : g.nodeIds[k] \notin NodeIdsOf(Positioned)

\* The connection c leaves box from through its bottom (top) edge and enters box to
\* through its top (bottom) edge, the target being below (above)
LeavesVertically(c, from, to) ==
  \/ /\ to.y > from.y
     /\ c.fromY = from.y + from.height \div 2
     /\ c.toY = to.y - to.height \div 2
  \/ /\ to.y < from.y
     /\ c.fromY = from.y - from.height \div 2
     /\ c.toY = to.y + to.height \div 2

\* The connection c leaves box from through its right (left) edge and enters box to
\* through its left (right) edge, the target being to the right (left)
LeavesHorizontally(c, from, to) ==
  \/ /\ to.x > from.x
     /\ c.fromX = from.x + from.width \div 2
     /\ c.toX = to.x - to.width \div 2
  \/ /\ to.x < from.x
     /\ c.fromX = from.x - from.width \div 2
     /\ c.toX = to.x + to.width \div 2

\* C11: a connection between two positioned nodes with centre difference (dx, dy) leaves
\* vertically in TB mode when dy # 0, horizontally in LR mode when dx # 0, and else
\* along the axis of the larger distance; it leaves through the edge of the source
\* that faces the target and enters through the facing edge of the target.  The TB
\* graph a -> b has a at row 0, b at row 1, both in column 0.
C11_AxisAndSide ==
  Returned =>
    LET out == Positioned
    IN /\ \A c \in Range(out.connections) :
            (c.from \in NodeIdsOf(out) /\ c.to \in NodeIdsOf(out)) =>
              LET from == NodeOf(out, c.from)
                  to == NodeOf(out, c.to)
                  dx == to.x - from.x
                  dy == to.y - from.y
              IN /\ (out.direction = "TB" /\ dy # 0) => LeavesVertically(c, from, to)
                 /\ (out.direction = "LR" /\ dx # 0) => LeavesHorizontally(c, from, to)
                 /\ (~(out.direction = "TB" /\ dy # 0) /\ ~(out.direction = "LR" /\ dx # 0)) =>
                      /\ Abs(dx) > Abs(dy) => LeavesHorizontally(c, from, to)
                      /\ Abs(dy) > Abs(dx) => LeavesVertically(c, from, to)
       /\ (out.direction = "TB" /\ NoHints(snapshot) /\ Len(snapshot.nodes) = 2
             /\ snapshot.connections = Chain(2)) =>
            /\ out.nodes[1].row = <<0>> /\ out.nodes[1].column = <<0>>
            /\ out.nodes[2].row = <<1>> /\ out.nodes[2].column = <<0>>

\* A TB connection to a node one row down and one column to the right, which is
\* farther away horizontally than vertically and still leaves through the bottom edge
C11_Witness ==
  /\ Returned
  /\ Positioned.direction = "TB"
  /\ \E c \in Range(Positioned.connections) :
       /\ c.from \in NodeIdsOf(Positioned) /\ c.to \in NodeIdsOf(Positioned)
       /\ LET from == NodeOf(Positioned, c.from)
              to == NodeOf(Positioned, c.to)
          IN /\ to.y > from.y
             /\ Abs(to.x - from.x) > Abs(to.y - from.y)
             /\ c.fromY = from.y + from.height \div 2

\* The graph has the shape of a DiagramGraph: at least one node, every importance
\* absent or one of the three tiers
StructurallyValid(g) ==
  /\ Len(g.nodes) >= 1
  /\ g.direction \in Directions
  /\ \A n \in Range(g.nodes) : n.importance \in {"undefined", "high", "medium", "low"}

RankBased(g) ==
  LET ranked == assignRanks(g.nodes, [i \in 1..Len(g.nodes) |-> i], g.connections,
                            g.direction)
  IN [i \in 1..Len(g.nodes) |-> ranked.heap[ranked.nodes[i]]]

\* Some node has more than one outgoing or more than one incoming connection
Branching(g) ==
  \E id \in NodeIdsOf(g) :
    Len(OutgoingOf(g.connections, id)) > 1 \/ Len(IncomingOf(g.connections, id)) > 1

\* No id, of a node or not, has more than one outgoing or incoming connection, and
\* some node has no incoming connection: the chain walk has a start and ends
HasChain(g) ==
  /\ \A c \in Range(g.connections) :
       Len(OutgoingOf(g.connections, c.from)) = 1 /\ Len(IncomingOf(g.connections, c.to)) = 1
  /\ \E n \in Range(g.nodes) : IncomingOf(g.connections, n.id) = <<>>

\* The ids on the chain walked from the first node without incoming connection
ChainOf(g) ==
  LET starts == SelectSeq(g.nodes, LAMBDA n : IncomingOf(g.connections, n.id) = <<>>)
  IN Range(WalkChain(g.connections, starts[1].id, <<>>))

\* The chain covers fewer than 80% of the nodes
CoversTooFew(g) == Cardinality(ChainOf(g) \cap NodeIdsOf(g)) * 10 < Len(g.nodes) * 8

KeepsRankBased(g, out, i) ==
  /\ out.nodes[i].row = RankBased(g)[i].row
  /\ out.nodes[i].column = RankBased(g)[i].column

\* C13: in LR mode, when some node has more than one outgoing or incoming connection,
\* or the chain walked from the start node covers fewer than 80% of the nodes, every
\* node keeps the row and column of rank assignment; when wrapping is applied, every
\* node off the chain keeps them.
C13_SnakeFallback ==
  (Returned /\ snapshot.direction = "LR") =>
    LET g == snapshot
        out == Positioned
    IN /\ Branching(g) => \A i \in 1..Len(g.nodes) : KeepsRankBased(g, out, i)
       /\ (HasChain(g) /\ CoversTooFew(g)) =>
            \A i \in 1..Len(g.nodes) : KeepsRankBased(g, out, i)
       /\ (HasChain(g) /\ ~CoversTooFew(g)) =>
            \A i \in 1..Len(g.nodes) :
              g.nodes[i].id \notin ChainOf(g) => KeepsRankBased(g, out, i)

ArrowDx == arrow.conn.toX - arrow.conn.fromX
ArrowDy == arrow.conn.toY - arrow.conn.fromY

\* Every segment of the 4-point path is horizontal or vertical and not empty
IsElbow(path) ==
  /\ Len(path) = 4
  /\ \A i \in 1..3 : (path[i][1] = path[i + 1][1]) # (path[i][2] = path[i + 1][2])
  /\ path[1] = <<0, 0>>
  /\ path[4] = <<ArrowDx, ArrowDy>>

\* The elbow turns at half the distance along the dominant axis, but in TB mode a
\* vertical-dominant one turns min(40, 0.15 * |dy|) pixels from the source
TurnsAsClaimed(path) ==
  IF Abs(ArrowDx) >= Abs(ArrowDy)
  THEN 2 * path[2][1] = ArrowDx /\ path[2][2] = 0
  ELSE IF arrow.direction = "TB"
  THEN /\ path[2][1] = 0
       /\ 100 * Abs(path[2][2]) = Min(100 * 40 * Sub, 15 * Abs(ArrowDy))
       /\ (path[2][2] > 0) = (ArrowDy > 0)
  ELSE path[2][1] = 0 /\ 2 * path[2][2] = ArrowDy

RECURSIVE LongestPath(_, _)
LongestPath(connections, id) ==
  LET before == Range(IncomingOf(connections, id))
  IN IF before = {} THEN 0
     ELSE SetMax({LongestPath(connections, u) : u \in before}) + 1

\* C16: in an acyclic graph (here: without dangling connections, where the statement
\* already fails) the rank assignRanks gives a node is the length of the longest path
\* from any root to it.
C16_RankIsLongestPath ==
  (Returned /\ NoDangling(snapshot) /\ IsAcyclic(snapshot.connections)) =>
    LET nodeRanks == NodeRanks(snapshot.nodes, snapshot.connections)
    IN \A id \in NodeIdsOf(snapshot) :
         RanksGet(nodeRanks, id) = LongestPath(snapshot.connections, id)

\* Connections c1 and c2 leave node s through the same edge towards existing nodes
\* t1 and t2: the exit points are in the order of the targets' coordinate along that
\* edge
ExitsInOrder(s, c1, t1, c2, t2, direction) ==
  LET side == Side(s, t1, direction)
  IN (side # "none" /\ side = Side(s, t2, direction)) =>
       IF side \in {"top", "bottom"}
       THEN t1.x < t2.x => c1.fromX < c2.fromX
       ELSE t1.y < t2.y => c1.fromY < c2.fromY

\* Connections c1 and c2 enter node t through the same edge from existing nodes s1
\* and s2: the entry points are in the order of the sources' coordinate along it
EntriesInOrder(t, c1, s1, c2, s2, direction) ==
  LET side == Side(s1, t, direction)
  IN (side # "none" /\ side = Side(s2, t, direction)) =>
       IF side \in {"top", "bottom"}
       THEN s1.x < s2.x => c1.toX < c2.toX
       ELSE s1.y < s2.y => c1.toY < c2.toY

\* C17: the exit points of the connections that leave one source through one edge are
\* ordered like their targets' coordinate along that edge (x for vertical exits, y for
\* horizontal exits), and the entry points into one target like their sources'.
C17_FanOrdering ==
  Returned =>
    LET out == Positioned
        valid == {c \in Range(out.connections) :
                    c.from \in NodeIdsOf(out) /\ c.to \in NodeIdsOf(out)}
    IN \A c1 \in valid, c2 \in valid :
         /\ c1.from = c2.from =>
              ExitsInOrder(NodeOf(out, c1.from), c1, NodeOf(out, c1.to),
                           c2, NodeOf(out, c2.to), out.direction)
         /\ c1.to = c2.to =>
              EntriesInOrder(NodeOf(out, c1.to), c1, NodeOf(out, c1.from),
                             c2, NodeOf(out, c2.from), out.direction)

\* No id occurs twice in the sequence s
NoRepeat(s) == \A i \in 1..Len(s), j \in 1..Len(s) : s[i] = s[j] => i = j

\* Both loops are over
TraversalDone == traversal.pc = "done"

\* The loops computed what assignRanks and applySnakeLayout compute
TraversalResult ==
  TraversalDone =>
    /\ traversal.nodeRanks = NodeRanks(traversal.nodes, traversal.connections)
    /\ traversal.chain # <<>> =>
         traversal.chain =
           WalkChain(traversal.connections, traversal.chain[1], <<>>)

\* C18: on every graph, with cycles, self-loops and dangling connections, the rank
\* traversal expands no id twice, the chain walk visits no id twice, and both loops
\* come to their end.
C18_Terminates ==
  /\ [](traversal.pc # "idle" =>
          /\ NoRepeat(traversal.expanded)
          /\ NoRepeat(traversal.chain)
          /\ TraversalResult)
  /\ <>TraversalDone

\* Both loops ended on a graph with a cycle, after a traversal that expanded several
\* ids and a walk of several steps
C18_Witness ==
  /\ TraversalDone
  /\ ~IsAcyclic(traversal.connections)
  /\ Len(traversal.expanded) >= 2
  /\ Len(traversal.chain) >= 2

\* C19: in TB and LR, when no node carries a row or column hint, distinct nodes get
\* distinct (row, column) cells and therefore distinct centres, also when the snake
\* wrapping of a chain leaves nodes off the chain where the ranks put them.
C19_DistinctCells ==
  (Returned /\ snapshot.direction \in {"TB", "LR"} /\ NoHints(snapshot)) =>
    LET nodes == Positioned.nodes
    IN \A i \in 1..Len(nodes), j \in 1..Len(nodes) :
         i # j =>
           /\ <<nodes[i].row, nodes[i].column>> # <<nodes[j].row, nodes[j].column>>
           /\ <<nodes[i].x, nodes[i].y>> # <<nodes[j].x, nodes[j].y>>

\* The grid cell of a positioned node: its left and top border, in units
CellLeft(n) == Px(CONFIG.margin + Coalesce(n.column, 0) * CONFIG.cellWidth)
CellTop(n) == Px(CONFIG.margin + 50 + Coalesce(n.row, 0) * CONFIG.cellHeight)
SameCell(n1, n2) ==
  Coalesce(n1.row, 0) = Coalesce(n2.row, 0) /\ Coalesce(n1.column, 0) = Coalesce(n2.column, 0)

\* The box of n is centred in its cell and lies strictly inside it
StrictlyInCell(n) ==
  /\ 2 * n.x = 2 * CellLeft(n) + Px(CONFIG.cellWidth)
  /\ 2 * n.y = 2 * CellTop(n) + Px(CONFIG.cellHeight)
  /\ 2 * CellLeft(n) < 2 * n.x - n.width
  /\ 2 * n.x + n.width < 2 * (CellLeft(n) + Px(CONFIG.cellWidth))
  /\ 2 * CellTop(n) < 2 * n.y - n.height
  /\ 2 * n.y + n.height < 2 * (CellTop(n) + Px(CONFIG.cellHeight))

\* The boxes of n1 and n2 neither overlap nor touch
BoxesApart(n1, n2) ==
  \/ 2 * Abs(n1.x - n2.x) > n1.width + n2.width
  \/ 2 * Abs(n1.y - n2.y) > n1.height + n2.height

\* C20: every positioned node is at most 340 wide and 160 high and its box lies
\* strictly inside its grid cell, centred; the boxes of two nodes in different cells
\* neither overlap nor touch, whatever the importance and the label length.
C20_BoxInCell ==
  Returned =>
    LET nodes == Positioned.nodes
    IN /\ \A i \in 1..Len(nodes) :
            /\ nodes[i].width <= Px(340)
            /\ nodes[i].height <= Px(160)
            /\ StrictlyInCell(nodes[i])
       /\ \A i \in 1..Len(nodes), j \in 1..Len(nodes) :
            ~SameCell(nodes[i], nodes[j]) => BoxesApart(nodes[i], nodes[j])

\* Two boxes of width 340 in neighbouring columns of one row, one of them with a
\* label that asks for more than 340
C20_Witness ==
  /\ Returned
  /\ LET nodes == Positioned.nodes
     IN \E i \in 1..Len(nodes), j \in 1..Len(nodes) :
          /\ nodes[i].labelLen * 10 + 30 > 340
          /\ nodes[i].width = Px(340) /\ nodes[j].width = Px(340)
          /\ Coalesce(nodes[i].row, 0) = Coalesce(nodes[j].row, 0)
          /\ Coalesce(nodes[j].column, 0) = Coalesce(nodes[i].column, 0) + 1

\* The ranks the traversal from the roots assigns, before the disconnected nodes
ReachedRanks(g) == Bfs(InitialQueue(g.nodes, g.connections), <<>>, g.connections)

\* The nodes the traversal does not reach, in node order
Unreached(g) == SelectSeq(g.nodes, LAMBDA n : ~RanksHas(ReachedRanks(g), n.id))

\* C21: the nodes the traversal from the roots does not reach get, in node order, the
\* ranks max+1, max+2, ... where max is the largest rank of the traversal; none of
\* them shares its rank with any other id.
C21_UnreachedOwnRank ==
  Returned =>
    LET reached == ReachedRanks(snapshot)
        maxRank == SetMax({reached[i].rank : i \in 1..Len(reached)} \cup {0})
        nodeRanks == NodeRanks(snapshot.nodes, snapshot.connections)
        unreached == Unreached(snapshot)
    IN \A k \in 1..Len(unreached) :
         /\ RanksGet(nodeRanks, unreached[k].id) = maxRank + k
         /\ \A i \in 1..Len(nodeRanks) :
              nodeRanks[i].id # unreached[k].id => nodeRanks[i].rank # maxRank + k

\* Two nodes on a cycle that no root leads to, behind a traversal that went beyond
\* rank 0
C21_Witness ==
  /\ Returned
  /\ Len(Unreached(snapshot)) >= 2
  /\ \E i \in 1..Len(ReachedRanks(snapshot)) : ReachedRanks(snapshot)[i].rank >= 1

\* applySnakeLayout wraps the chain of graph g: the connections pass its chain test, a
\* node starts the walk, and the walked chain is at least 80% of the node count
SnakeApplied(g) ==
  /\ g.direction = "LR"
  /\ HasChain(g)
  /\ LET starts == SelectSeq(g.nodes, LAMBDA n : IncomingOf(g.connections, n.id) = <<>>)
     IN Len(WalkChain(g.connections, starts[1].id, <<>>)) * 10 >= Len(g.nodes) * 8

\* The cells of n1 and n2 are neighbours in a row or in a column
AdjacentCells(n1, n2) ==
  Abs(n1.row[1] - n2.row[1]) + Abs(n1.column[1] - n2.column[1]) = 1

\* C22: when the chain is wrapped, two nodes that follow each other on the chain lie
\* in cells that are neighbours horizontally or vertically, also where the chain goes
\* from one row to the next.
C22_ConsecutiveAdjacent ==
  (Returned /\ SnakeApplied(snapshot)) =>
    LET out == Positioned
        onChain == ChainOf(snapshot) \cap NodeIdsOf(snapshot)
    IN \A c \in Range(snapshot.connections) :
         (c.from \in onChain /\ c.to \in onChain) =>
           AdjacentCells(NodeOf(out, c.from), NodeOf(out, c.to))

\* A wrapped chain of seven nodes: four columns, and a connection from row 0 to row 1
C22_Witness ==
  /\ Returned
  /\ SnakeApplied(snapshot)
  /\ Cardinality(ChainOf(snapshot) \cap NodeIdsOf(snapshot)) = 7
  /\ \E c \in Range(snapshot.connections) :
       /\ c.from \in NodeIdsOf(snapshot) /\ c.to \in NodeIdsOf(snapshot)
       /\ NodeOf(Positioned, c.from).row = << 0 >>
       /\ NodeOf(Positioned, c.to).row = << 1 >>
       /\ NodeOf(Positioned, c.to).column = << 3 >>

\* The base size of an importance tier, medium when the importance is absent
BaseWidth(importance) ==
  IF importance = "high" THEN 260 ELSE IF importance = "low" THEN 220 ELSE 240
BaseHeight(importance) ==
  IF importance = "high" THEN 160 ELSE IF importance = "low" THEN 120 ELSE 140

\* C23: every positioned node has its centre at x = 80 + 360 * column + 180 and
\* y = 130 + 220 * row + 110, the base height of its importance tier, and the width
\* max(base width, min(10 * label length + 30, 340)), which lies between the base width
\* and 340.
C23_GridGeometry ==
  Returned =>
    \A n \in Range(Positioned.nodes) :
      /\ n.x = Px(80 + 360 * Coalesce(n.column, 0) + 180)
      /\ n.y = Px(130 + 220 * Coalesce(n.row, 0) + 110)
      /\ n.height = Px(BaseHeight(n.importance))
      /\ n.width = Px(Max(BaseWidth(n.importance), Min(10 * n.labelLen + 30, 340)))
      /\ Px(BaseWidth(n.importance)) <= n.width
      /\ n.width <= Px(340)

\* A node without importance whose label of 22 characters widens it to 250, beside a
\* low node whose label of 40 characters is cut at 340, away from row 0 or column 0
C23_Witness ==
  /\ Returned
  /\ \E n \in Range(Positioned.nodes), m \in Range(Positioned.nodes) :
       /\ n.importance = "undefined" /\ n.labelLen = 22 /\ n.width = Px(250)
       /\ m.importance = "low" /\ m.labelLen = 40 /\ m.width = Px(340)
       /\ Coalesce(m.row, 0) + Coalesce(m.column, 0) >= 1

\* The note's rectangle lies on the requested side of node t, noteOffset from its edge;
\* the rectangle is in half units
BesideNode(box, t, position) ==
  LET gap == 2 * Px(50)
  IN IF position = "left" THEN box.x + box.width = 2 * t.x - t.width - gap
     ELSE IF position = "right" THEN box.x = 2 * t.x + t.width + gap
     ELSE IF position = "above" THEN box.y + box.height = 2 * t.y - t.height - gap
     ELSE box.y = 2 * t.y + t.height + gap

\* The positioned notes that are attached to an existing node
AttachedNotes(out) ==
  {note \in Range(out.notes) :
     note.attachedTo # <<>> /\ note.attachedTo[1] \in NodeIdsOf(out)}

\* C24: the rectangle drawn for a note attached to an existing node lies on the
\* requested side of the node's box (below when no position is given), its nearest
\* edge 50 away from the node's edge, the same in all four directions.
C24_NoteBesideNode ==
  Returned =>
    \A note \in AttachedNotes(Positioned) :
      \A lines \in NoteLines(note.text) :
        BesideNode(createNoteElements(note, lines),
                   NodeOf(Positioned, note.attachedTo[1]),
                   IF note.position = "undefined" THEN "below" ELSE note.position)

\* The positioned notes that float: no attachedTo, or one that matches no node
FloatingNotes(out) ==
  SelectSeq(out.notes,
            LAMBDA note : note.attachedTo = <<>> \/ note.attachedTo[1] \notin NodeIdsOf(out))

\* C25: the floating notes all have the x of the centre of the columns 0..maxCol, lie
\* below the lowest occupied row, and each is 140 further down than the floating note
\* before it, whatever other notes stand between them in the list.
C25_FloatingStack ==
  Returned =>
    LET out == Positioned
        floating == FloatingNotes(out)
        maxRow == SetMax({Coalesce(n.row, 0) : n \in Range(out.nodes)})
        maxCol == SetMax({Coalesce(n.column, 0) : n \in Range(out.nodes)})
    IN /\ \A k \in 1..Len(floating) :
            /\ floating[k].x = Px(80 + ((maxCol + 1) * 360) \div 2)
            /\ floating[k].y > Px(130 + (maxRow + 1) * 220)
       /\ \A k \in 1..(Len(floating) - 1) :
            floating[k + 1].y = floating[k].y + Px(140)

\* The ids of the nodes of a parsed or validated graph that have one
ParsedIds(g) == {g.nodes[1][i].id[1] : i \in {j \in 1..Len(g.nodes[1]) : g.nodes[1][j].id # <<>>}}

\* A parsed value that validateGraph has to refuse: no node, a node without id or
\* label, or two nodes with one id
Refused(v) ==
  \/ v = <<>>
  \/ v[1].nodes = <<>>
  \/ v[1].nodes[1] = <<>>
  \/ \E i \in 1..Len(v[1].nodes[1]) :
       Falsy(v[1].nodes[1][i].id) \/ Falsy(v[1].nodes[1][i].label)
  \/ \E i \in 1..Len(v[1].nodes[1]), j \in 1..Len(v[1].nodes[1]) :
       i # j /\ v[1].nodes[1][i].id = v[1].nodes[1][j].id

\* C26: when validateGraph returns, the graph has a node, every node has a non-empty id
\* and label, the ids are pairwise distinct, every connection left joins two node ids
\* and every group left has a member and only members that are node ids; it throws
\* when there is no node, a node lacks id or label, or two nodes share an id.
C26_Validated ==
  /\ validation.pc = "returned" =>
       LET g == validation.graph
           nodes == g.nodes[1]
       IN /\ Len(nodes) >= 1
          /\ \A i \in 1..Len(nodes) : ~Falsy(nodes[i].id) /\ ~Falsy(nodes[i].label)
          /\ \A i \in 1..Len(nodes), j \in 1..Len(nodes) :
               nodes[i].id = nodes[j].id => i = j
          /\ \A c \in Range(g.connections[1]) :
               /\ c.from # <<>> /\ c.from[1] \in ParsedIds(g)
               /\ c.to # <<>> /\ c.to[1] \in ParsedIds(g)
          /\ g.groups # <<>> =>
               \A group \in Range(g.groups[1]) :
                 /\ Len(group.nodeIds) >= 1
                 /\ Range(group.nodeIds) \subseteq ParsedIds(g)
  /\ (validation.pc \in {"returned", "thrown"} /\ Refused(validation.input)) =>
       validation.pc = "thrown"

\* validateGraph returned after it removed a connection and a group from the graph
C26_Witness ==
  /\ validation.pc = "returned"
  /\ validation.input[1].connections # <<>>
  /\ Len(validation.graph.connections[1]) < Len(validation.input[1].connections[1])
  /\ Len(validation.graph.connections[1]) >= 1
  /\ validation.input[1].groups # <<>>
  /\ Len(validation.graph.groups[1]) < Len(validation.input[1].groups[1])
  /\ Len(validation.graph.groups[1]) >= 1

\* C27: generateGraphFromThinking sends at most 3 requests; the one that gives a valid
\* graph is the last and its graph is what the call returns; the request after a
\* failed attempt is sent with exactly one more message, the error of that attempt;
\* after three failures the call throws the error of the third.
C27_ThreeAttempts ==
  LET requests == generation.requests
      outcomes == generation.outcomes
  IN generation.pc # "idle" =>
       /\ Len(requests) <= 3
       /\ Len(outcomes) = Len(requests)
       /\ \A k \in 1..Len(outcomes) : outcomes[k].ok => k = Len(outcomes)
       /\ generation.pc = "returned" <=> (outcomes # <<>> /\ outcomes[Len(outcomes)].ok)
       /\ \A k \in 1..Len(requests) :
            /\ Len(requests[k]) = Len(generationMessages) + (k - 1)
            /\ k > 1 => /\ requests[k] = Append(requests[k - 1], requests[k][Len(requests[k])])
                        /\ requests[k][Len(requests[k])] = ErrorMessage(outcomes[k - 1].value)
       /\ generation.pc = "thrown" =>
            /\ Len(outcomes) = 3
            /\ generation.lastError = << outcomes[3].value >>

\* The third attempt gave the graph, after two different errors
C27_Witness ==
  /\ generation.pc = "returned"
  /\ Len(generation.requests) = 3
  /\ generation.outcomes[1].value # generation.outcomes[2].value
  /\ Len(generation.requests[3]) = 6

\* The execute() calls that are between their start and their return
RunningCalls == {c \in 1..Len(execution.calls) : execution.calls[c].at # "returned"}

\* This step is an execute() call made while another one is in progress
CalledWhileRunning ==
  /\ RunningCalls # {}
  /\ Len(execution'.calls) = Len(execution.calls) + 1

\* C28: at most one execute() runs at a time; an execute() called while another is in
\* progress returns 'Execution already in progress' and leaves iterationCount,
\* errorCount and the conversation history as they are; when no execute() is running
\* any more, however the last one ended, isRunning() is false.
C28_OneExecution ==
  /\ [](execution.pc = "constructed" =>
          /\ Cardinality(RunningCalls) <= 1
          /\ execution.state.isRunning <=> RunningCalls # {})
  /\ [][CalledWhileRunning =>
          /\ execution'.calls[Len(execution'.calls)].result =
               << [success |-> FALSE, message |-> "Execution already in progress"] >>
          /\ execution'.state = execution.state
          /\ execution'.conversationHistory = execution.conversationHistory
          /\ RunningCalls' = RunningCalls]_vars

\* A call was refused while another one ran, and that one has ended with too many
\* errors
C28_Witness ==
  /\ execution.pc = "constructed"
  /\ Len(execution.calls) = 2
  /\ execution.calls[1].result =
       << [success |-> FALSE, message |-> "Too many consecutive errors"] >>
  /\ execution.calls[2].result =
       << [success |-> FALSE, message |-> "Execution already in progress"] >>
  /\ ~execution.state.isRunning

\* C29: an execute() reports 'Detected infinite loop in tool calls' only when the tool
\* calls of its response equal those of its own previous iteration; its first batch of
\* tool calls is never reported, whatever an earlier execute() ended with.
C29_LoopWithinOneCall ==
  execution.pc = "constructed" =>
    \A c \in 1..Len(execution.calls) :
      LET call == execution.calls[c]
      IN (call.result # <<>> /\ call.result[1].message = "Detected infinite loop in tool calls") =>
           /\ call.batches >= 2
           /\ call.previous # <<>>
           /\ Signature(call.previous) = Signature(call.toolCalls)

\* C30: no reply is lost: a reply the WebView posts for the message of a call is the
\* result of that call, whenever it arrives; no reply is dropped or given to another
\* call, and a call reports 'Operation timed out' only when no reply was posted for
\* it before.
C30_NoReplyLost ==
  webview.pc = "open" =>
    /\ webview.dropped = {}
    /\ \A t \in webview.timedOut : ~t.posted
    /\ \A c \in 1..Len(webview.calls) :
         LET call == webview.calls[c]
         IN (call.result # <<>> /\ call.result[1].reply # <<>>) =>
              call.result[1].reply[1].for = c

====
